---- MODULE Spec2Model ----
(***************************************************************************)
(* Model of the price/candle reconciliation layer of TraDex:               *)
(*   - mergeHistories        (lib/token/merge.ts)                          *)
(*   - useUnifiedPrices      (hooks/useUnifiedPrices.ts)                   *)
(*   - useCoinHistory        (hooks/useCoinHistory.ts)                     *)
(*   - the candle and snapshot adapters, the protocol routes               *)
(*   - normalizeSymbol        (types/market.ts)                            *)
(*   - genMock                (lib/token/mock.ts)                          *)
(*   - the assistant chat pages AIAnalysisPage and AssistantPage           *)
(* Prices are JavaScript numbers in the source; here they are integers     *)
(* (the spec's example prices 10, 10.5, ... are scaled by two).  A candle  *)
(* is a record; a candle without a volume property is a record without a   *)
(* volume field.  A JavaScript string is a sequence of one-character       *)
(* strings, so that toUpperCase and trim are computed, not assumed.        *)
(***************************************************************************)
EXTENDS Integers, Sequences, FiniteSets, TLC

VARIABLES
    histories,   \* mergeHistories: the argument
    merged,      \* mergeHistories: the returned History
    mpc,         \* mergeHistories: "idle" before the call, "returned" after
    enabled,     \* useUnifiedPrices: opts.enabled, protocol -> BOOLEAN
    swrData,     \* useUnifiedPrices: the four useSWR hooks' data
    swrErr,      \* useUnifiedPrices: the four useSWR hooks' error
    swrLoading,  \* useUnifiedPrices: the four useSWR hooks' isLoading
    view,        \* useUnifiedPrices: what the render returned
    apc,         \* useUnifiedPrices: "mounted" before the render, "rendered" after
    useMock,     \* useCoinHistory: the useMock argument
    upstream,    \* useCoinHistory: how each adapter's promise is going to settle
    settled,     \* useCoinHistory: the two PromiseSettledResults, or "pending"
    hpc,         \* useCoinHistory: position of the fetcher
    hData,       \* useCoinHistory: what the fetcher's promise resolved/rejected with
    cOp,         \* candle adapters: the function that was called
    cSymbol,     \* candle adapters: its symbol argument
    cpc,         \* candle adapters: the response the call is waiting for
    cNet,        \* candle adapters: the requests made so far, in order
    cSeen,       \* candle adapters: the response each endpoint gave
    cSettled,    \* candle adapters: how each adapter's promise settled
    cOut,        \* candle adapters: how the called function's promise settled
    sProto,      \* snapshot adapters: the protocol whose adapter was called
    sArgs,       \* snapshot adapters: its arguments secondsAgo and first
    sEnv,        \* snapshot adapters: process.env
    spc,         \* snapshot adapters: the answers the call is waiting for
    sNet,        \* snapshot adapters: the queries posted so far, in order
    sSeen,       \* snapshot adapters: the answer each query got
    sBn,         \* snapshot adapters: the anchor block bn
    sOut,        \* snapshot adapters: how the adapter's promise settled
    rProto,      \* protocol route: the protocol whose route module this is
    rNow,        \* protocol route: Date.now(), in milliseconds
    rTicks,      \* protocol route: how often the clock has advanced
    rCache,      \* protocol route: the module's cache variable
    rReq,        \* protocol route: the GET requests: position, key, response
    rFetches,    \* protocol route: the requests that called the adapter, in order
    nInput,      \* normalizeSymbol: the input argument
    nOut,        \* normalizeSymbol: what the call returned or threw, NotCalled before
    gArgs,       \* genMock: the days and interval arguments of the calls
    gClock,      \* genMock: Date.now(), in milliseconds
    gTicks,      \* genMock: how often the clock has advanced
    gPrev,       \* genMock: the call before the last one, NotCalled if none
    gLast,       \* genMock: the last call: its symbol, the clock at the call, the returned History
    chPage,      \* chat pages: the page, AIAnalysisPage or AssistantPage
    chMsgs,      \* chat pages: the msgs state
    chInput,     \* chat pages: the input state
    chSending,   \* chat pages: the sending state (AIAnalysisPage)
    chReq        \* chat pages: the requests sent so far: message and whether settled

mergeVars == <<histories, merged, mpc>>
aggVars   == <<enabled, swrData, swrErr, swrLoading, view, apc>>
histVars  == <<useMock, upstream, settled, hpc, hData>>
candleVars == <<cOp, cSymbol, cpc, cNet, cSeen, cSettled, cOut>>
snapVars  == <<sProto, sArgs, sEnv, spc, sNet, sSeen, sBn, sOut>>
routeVars == <<rProto, rNow, rTicks, rCache, rReq, rFetches>>
symVars == <<nInput, nOut>>
mockVars == <<gArgs, gClock, gTicks, gPrev, gLast>>
chatVars == <<chPage, chMsgs, chInput, chSending, chReq>>
vars      == <<histories, merged, mpc, enabled, swrData, swrErr, swrLoading, view, apc,
               useMock, upstream, settled, hpc, hData,
               cOp, cSymbol, cpc, cNet, cSeen, cSettled, cOut,
               sProto, sArgs, sEnv, spc, sNet, sSeen, sBn, sOut,
               rProto, rNow, rTicks, rCache, rReq, rFetches,
               nInput, nOut,
               gArgs, gClock, gTicks, gPrev, gLast,
               chPage, chMsgs, chInput, chSending, chReq>>

\* JavaScript's undefined, where an object is expected (an optional property that
\* is not set is a field the record does not have)
Undefined == [ undefined |-> TRUE ]

\* A slot typed number | undefined or number | null: NoNumber when it holds no
\* number, Num(n) when it holds n.
NoNumber == <<>>
Num(n)   == <<n>>

----------------------------------------------------------------------------
(* Bounds of the input spaces *)

MaxTime    == 2   \* candle timestamps are 1..MaxTime
MaxHist    == 2   \* mergeHistories is given at most MaxHist histories
MaxCandles == 3   \* ... that hold at most MaxCandles candles together

----------------------------------------------------------------------------
(* Generic helpers: JavaScript array operations *)

Range(s) == { s[i] : i \in 1..Len(s) }

RECURSIVE Flat(_)
\* for (const h of histories) for (const c of h): the candles in visiting order
Flat(hs) == IF hs = <<>> THEN <<>> ELSE Head(hs) \o Flat(Tail(hs))

RECURSIVE SeqMax(_)
\* Math.max(...xs), xs non-empty
SeqMax(xs) ==
    IF Len(xs) = 1 THEN xs[1]
    ELSE LET m == SeqMax(Tail(xs)) IN IF xs[1] >= m THEN xs[1] ELSE m

RECURSIVE SeqMin(_)
\* Math.min(...xs), xs non-empty
SeqMin(xs) ==
    IF Len(xs) = 1 THEN xs[1]
    ELSE LET m == SeqMin(Tail(xs)) IN IF xs[1] =< m THEN xs[1] ELSE m

\* One step of a stable insertion sort of numbers: x goes after every element
\* that does not compare greater (comparator (a, b) => a - b).
NumInsert(sorted, x) ==
    LET k == Cardinality({ i \in 1..Len(sorted) : sorted[i] =< x })
    IN  SubSeq(sorted, 1, k) \o <<x>> \o SubSeq(sorted, k + 1, Len(sorted))

RECURSIVE NumSortFrom(_, _)
NumSortFrom(sorted, rest) ==
    IF rest = <<>> THEN sorted
    ELSE NumSortFrom(NumInsert(sorted, Head(rest)), Tail(rest))

\* xs.slice().sort((a, b) => a - b)
NumSort(xs) == NumSortFrom(<<>>, xs)

\* sorted[Math.floor(sorted.length / 2)] (0-based index in the source)
MidElement(sorted) == sorted[(Len(sorted) \div 2) + 1]

----------------------------------------------------------------------------
(* mergeHistories, lib/token/merge.ts *)

\* Array.prototype.sort with (a, b) => a.time - b.time is stable: a candle is
\* placed after every candle whose time is not greater.
TimeInsert(sorted, c) ==
    LET k == Cardinality({ i \in 1..Len(sorted) : sorted[i].time =< c.time })
    IN  SubSeq(sorted, 1, k) \o <<c>> \o SubSeq(sorted, k + 1, Len(sorted))

RECURSIVE TimeSortFrom(_, _)
TimeSortFrom(sorted, rest) ==
    IF rest = <<>> THEN sorted
    ELSE TimeSortFrom(TimeInsert(sorted, Head(rest)), Tail(rest))

\* arr.sort((a, b) => a.time - b.time)
SortByTime(arr) == TimeSortFrom(<<>>, arr)

\* BucketPush without the buckets.has(ts) test: every candle opens a bucket
BucketPushNoLookup(buckets, c) == Append(buckets, [ ts |-> c.time, arr |-> <<c>> ])

\* lines 9-11: the Map after one candle; a Map keeps its keys in insertion order,
\* so it is a sequence of [ts, arr] entries.
BucketPush(buckets, c) ==
    IF \E i \in 1..Len(buckets) : buckets[i].ts = c.time
    THEN [ i \in 1..Len(buckets) |->
             IF buckets[i].ts = c.time
             THEN [ buckets[i] EXCEPT !.arr = Append(@, c) ]
             ELSE buckets[i] ]
    ELSE Append(buckets, [ ts |-> c.time, arr |-> <<c>> ])

RECURSIVE BucketFill(_, _)
BucketFill(buckets, cs) ==
    IF cs = <<>> THEN buckets
    ELSE BucketFill(BucketPush(buckets, Head(cs)), Tail(cs))

\* lines 5-13
Buckets(hs) == BucketFill(<<>>, Flat(hs))

\* MedianClose without the sort of line 22
MedianCloseUnsorted(arr) == MidElement([ i \in 1..Len(arr) |-> arr[i].close ])

\* lines 22-23
MedianClose(arr) ==
    LET closes == NumSort([ i \in 1..Len(arr) |-> arr[i].close ])
    IN  MidElement(closes)

\* BucketHigh taking the high of the bucket's first candle
BucketHighFirst(arr) == arr[1].high

\* line 20
BucketHigh(arr) == SeqMax([ i \in 1..Len(arr) |-> arr[i].high ])

\* BucketLow taking the low of the bucket's first candle
BucketLowFirst(arr) == arr[1].low

\* line 21
BucketLow(arr) == SeqMin([ i \in 1..Len(arr) |-> arr[i].low ])

\* BucketOpen taking the open of the bucket's last candle
BucketOpenLast(arr) == arr[Len(arr)].open

\* line 18, on the bucket as sorted by line 17
BucketOpen(arr) == arr[1].open

\* lines 17-24: the candle pushed for one Map entry
MergeBucket(b) ==
    LET arr == SortByTime(b.arr)
    IN  [ time  |-> b.ts,
          open  |-> BucketOpen(arr),
          high  |-> BucketHigh(arr),
          low   |-> BucketLow(arr),
          close |-> MedianClose(arr) ]

\* mergeHistories without the sort of line 27: buckets in Map insertion order
mergeHistoriesUnsorted(hs) ==
    LET buckets == Buckets(hs)
    IN  [ i \in 1..Len(buckets) |-> MergeBucket(buckets[i]) ]

\* lines 4-28
mergeHistories(hs) ==
    LET buckets == Buckets(hs)
    IN  SortByTime([ i \in 1..Len(buckets) |-> MergeBucket(buckets[i]) ])

----------------------------------------------------------------------------
(* Inputs of mergeHistories *)

Times == 1..MaxTime

\* Price shapes: what fromCoinGecko builds (no volume) and what fromBinance
\* builds (with volume); the first two are the spec's example candles.
Shapes ==
    { [ open |-> 20, high |-> 24, low |-> 18, close |-> 22 ],
      [ open |-> 21, high |-> 23, low |-> 19, close |-> 21, volume |-> 5 ],
      [ open |-> 16, high |-> 26, low |-> 14, close |-> 25, volume |-> 7 ] }

Candles == { s @@ [ time |-> t ] : s \in Shapes, t \in Times }

\* the sequences over S of length at most n
SeqsUpTo(S, n) == UNION { [ 1..k -> S ] : k \in 0..n }

\* flat cut into Len(cuts) consecutive histories, the i-th ending at cuts[i]
Split(flat, cuts) ==
    [ i \in 1..Len(cuts) |->
        SubSeq(flat, (IF i = 1 THEN 0 ELSE cuts[i - 1]) + 1, cuts[i]) ]

----------------------------------------------------------------------------
(* State machine of one mergeHistories call *)

MergeIdle ==
    /\ merged = <<>>
    /\ mpc = "idle"

\* every list of at most MaxHist histories that hold at most MaxCandles candles
\* together: the candles in visiting order, and where each history ends
MergeInit ==
    /\ \E k \in 0..MaxCandles : \E flat \in [ 1..k -> Candles ] :
       \E h \in 0..MaxHist : \E cuts \in [ 1..h -> 0..k ] :
          /\ h = 0 => k = 0
          /\ h > 0 => cuts[h] = k
          /\ \A i \in 1..(h - 1) : cuts[i] =< cuts[i + 1]
          /\ histories = Split(flat, cuts)
    /\ MergeIdle

CallMerge ==
    /\ mpc = "idle"
    /\ merged' = mergeHistories(histories)
    /\ mpc' = "returned"
    /\ UNCHANGED histories

----------------------------------------------------------------------------
(* JavaScript strings, as sequences of one-character strings *)

LowerCase == << "a","b","c","d","e","f","g","h","i","j","k","l","m",
                "n","o","p","q","r","s","t","u","v","w","x","y","z" >>
UpperCase == << "A","B","C","D","E","F","G","H","I","J","K","L","M",
                "N","O","P","Q","R","S","T","U","V","W","X","Y","Z" >>

WhiteSpace == { " ", "\t", "\n", "\r" }

UpperTable ==
    [ c \in Range(LowerCase) |-> UpperCase[CHOOSE i \in 1..Len(LowerCase) : LowerCase[i] = c] ]

UpperChar(c) == IF c \in DOMAIN UpperTable THEN UpperTable[c] ELSE c

\* String.prototype.toUpperCase
ToUpperCase(s) == [ i \in 1..Len(s) |-> UpperChar(s[i]) ]

\* String.prototype.trim
Trim(s) ==
    LET solid == { i \in 1..Len(s) : s[i] \notin WhiteSpace }
    IN  IF solid = {} THEN <<>>
        ELSE LET lo == CHOOSE i \in solid : \A j \in solid : i =< j
                 hi == CHOOSE i \in solid : \A j \in solid : j =< i
             IN  SubSeq(s, lo, hi)

----------------------------------------------------------------------------
(* useUnifiedPrices, hooks/useUnifiedPrices.ts *)

\* the four useSWR hooks, in the order the hook reads them (lines 40-62, 91-94)
Protocols == << "uni", "sushi", "quick", "cake" >>
ProtocolSet == Range(Protocols)

\* line 97: the threshold of tooLarge
PriceCeiling == 1000000

\* line 98: the allow-list of tooLarge
AllowList ==
    { <<"B","T","C">>, <<"W","B","T","C">>, <<"T","B","T","C">>,
      <<"E","T","H">>, <<"W","E","T","H">>, <<"P","A","X","G">>,
      <<"R","E","T","H">>, <<"S","T","E","T","H">>, <<"W","S","T","E","T","H">> }

\* tooLarge with px >= 1_000_000 for px > 1_000_000
tooLargeInclusive(sym, px) == px >= PriceCeiling /\ sym \notin AllowList

\* lines 97-98
tooLarge(sym, px) == px > PriceCeiling /\ sym \notin AllowList

\* NormSym without the trim
NormSymUntrimmed(t) == ToUpperCase(IF "symbol" \in DOMAIN t THEN t.symbol ELSE <<>>)

\* line 83: (t.symbol || '').toUpperCase().trim()
NormSym(t) == Trim(ToUpperCase(IF "symbol" \in DOMAIN t THEN t.symbol ELSE <<>>))

\* line 85: the Acc a symbol starts with
NewAcc(sym) ==
    [ symbol |-> sym, vals |-> <<>>, byProtocol |-> [ p \in ProtocolSet |-> NoNumber ] ]

\* lines 83-87: bySymbol after one token of proto's snapshot; bySymbol is an
\* object, its values are read in insertion order (no symbol here is an integer key)
AddToken(bySymbol, proto, t) ==
    LET sym == NormSym(t)
    IN  IF sym = <<>> THEN bySymbol
        ELSE LET have == IF \E i \in 1..Len(bySymbol) : bySymbol[i].symbol = sym
                         THEN bySymbol
                         ELSE Append(bySymbol, NewAcc(sym))
             IN  [ i \in 1..Len(have) |->
                     IF have[i].symbol = sym
                     THEN [ have[i] EXCEPT !.vals = Append(@, t.priceUSD),
                                           !.byProtocol[proto] = Num(t.priceUSD) ]
                     ELSE have[i] ]

RECURSIVE AddTokens(_, _, _)
AddTokens(bySymbol, proto, tokens) ==
    IF tokens = <<>> THEN bySymbol
    ELSE AddTokens(AddToken(bySymbol, proto, Head(tokens)), proto, Tail(tokens))

\* lines 80-89
add(bySymbol, proto, snap) ==
    IF snap = Undefined \/ "tokens" \notin DOMAIN snap THEN bySymbol
    ELSE AddTokens(bySymbol, proto, snap.tokens)

\* lines 91-94
BySymbol(data) ==
    add(add(add(add(<<>>, "uni", data["uni"]), "sushi", data["sushi"]),
            "quick", data["quick"]), "cake", data["cake"])

\* Median without the sort of line 101
MedianUnsorted(vals) ==
    IF Len(vals) > 0 THEN Num(MidElement(vals)) ELSE NoNumber

\* lines 101-102
Median(vals) ==
    LET sorted == NumSort(vals)
    IN  IF Len(sorted) > 0 THEN Num(MidElement(sorted)) ELSE NoNumber

\* lines 100-105: one row
RowOf(v) ==
    LET median == Median(v.vals)
        finalPrice == IF median # NoNumber /\ ~tooLarge(v.symbol, median[1])
                      THEN median ELSE NoNumber
    IN  [ symbol |-> v.symbol, price |-> finalPrice, byProtocol |-> v.byProtocol ]

\* lines 100-105
Rows(data) ==
    LET bySymbol == BySymbol(data)
    IN  [ i \in 1..Len(bySymbol) |-> RowOf(bySymbol[i]) ]

\* uni?.pools || []
PoolsOf(snap) ==
    IF snap = Undefined \/ "pools" \notin DOMAIN snap THEN <<>> ELSE snap.pools

\* lines 108-113
Pairs(data) ==
    PoolsOf(data["uni"]) \o PoolsOf(data["sushi"]) \o PoolsOf(data["quick"])
        \o PoolsOf(data["cake"])

\* lines 64-68
IsLoading(en, loading) == \E p \in ProtocolSet : en[p] /\ loading[p]

RECURSIVE FirstTruthy(_)
\* a || b || c || d: the first operand that is not undefined, else the last
FirstTruthy(xs) ==
    IF Len(xs) = 1 THEN xs[1]
    ELSE IF Head(xs) # Undefined THEN Head(xs) ELSE FirstTruthy(Tail(xs))

\* ErrorOf reading the first hook's error only
ErrorOfFirst(err) == err[Protocols[1]]

\* line 70
ErrorOf(err) == FirstTruthy([ i \in 1..Len(Protocols) |-> err[Protocols[i]] ])

\* lines 100-119: what one render of the hook returns
Render(en, data, err, loading) ==
    [ rows      |-> Rows(data),
      pairs     |-> Pairs(data),
      raw       |-> data,
      isLoading |-> IsLoading(en, loading),
      error     |-> ErrorOf(err) ]

\* MarketDashboard.tsx lines 14-77, on what the hook returned, with the search box
\* empty: the failure banner when error is set, else the table of rows and the pairs
MarketDashboard(hook) ==
    IF hook.error # Undefined
    THEN [ shows |-> "Failed to load", error |-> hook.error ]
    ELSE [ shows |-> "MarketTable", rows |-> hook.rows, pairs |-> hook.pairs ]

\* `HTTP ${r.status}` for the statuses the routes answer with
HttpMessage(status) == IF status = 500 THEN "HTTP 500" ELSE "HTTP 404"

\* lines 22-27: the fetcher on a response: the snapshot returned, or the Error thrown
\* (r.json() throws on a body that is not JSON, before r.ok is read)
fetcher(resp) ==
    IF ~resp.isJson
    THEN [ threw |-> TRUE, error |-> [ message |-> "SyntaxError" ] ]
    ELSE IF ~resp.ok
    THEN [ threw |-> TRUE,
           error |-> [ message |-> IF "error" \in DOMAIN resp.body
                                   THEN resp.body.error
                                   ELSE HttpMessage(resp.status) ] ]
    ELSE [ threw |-> FALSE, value |-> resp.body ]

----------------------------------------------------------------------------------------------------------------------------------------
(* Inputs of useUnifiedPrices: what its four useSWR hooks can hold *)

MaxTokens == 2   \* the snapshots held by the hooks list at most MaxTokens tokens together

\* TokenPrice entries: case and whitespace variants of one symbol, an allow-listed
\* and a non-listed symbol above the ceiling, a price at the ceiling, a blank symbol
Tokens ==
    { [ symbol |-> <<"b","t","c">>,         priceUSD |-> 2000000 ],
      [ symbol |-> <<" ","B","T","C"," ">>, priceUSD |-> 2100000 ],
      [ symbol |-> <<"X","Y","Z">>,         priceUSD |-> 2000000 ],
      [ symbol |-> <<"x","y","z"," ">>,     priceUSD |-> 1000000 ],
      [ symbol |-> <<" ">>,                 priceUSD |-> 7 ] }

PoolOf(p) == [ pair |-> <<p, "/", "WETH">>, tick |-> 1 ]

\* a success response of protocol p's route, carrying a Snapshot of at most m tokens
RouteSuccess(p, m) ==
    { [ isJson |-> TRUE, ok |-> TRUE, status |-> 200,
        body |-> [ tokens |-> ts, pools |-> <<PoolOf(p)>> ] ] : ts \in SeqsUpTo(Tokens, m) }

\* a failure response of protocol p's route: a 500 with an error body
\* (app/api/graph/*/route.ts), a bare 404, or a body that is not JSON
RouteFailure(p) ==
    IF p \in { "uni", "sushi" }
    THEN [ isJson |-> TRUE, ok |-> FALSE, status |-> 500, body |-> [ error |-> p ] ]
    ELSE IF p = "quick"
    THEN [ isJson |-> TRUE, ok |-> FALSE, status |-> 404, body |-> [ x \in {} |-> x ] ]
    ELSE [ isJson |-> FALSE, ok |-> FALSE, status |-> 502, body |-> Undefined ]

TokenCount(snap) ==
    IF snap = Undefined \/ "tokens" \notin DOMAIN snap THEN 0 ELSE Len(snap.tokens)

\* lines 37-62: what the useSWR hook of protocol p can hold, its snapshot listing at
\* most m tokens.  A null key (p disabled) holds nothing.  A returned snapshot is the
\* hook's data; a thrown Error is its error, and leaves the data of an earlier
\* success in place; isLoading is true while the first request runs.
HookStates(p, m) ==
    LET failed == fetcher(RouteFailure(p)).error
    IN  { [ en |-> FALSE, data |-> Undefined, err |-> Undefined, loading |-> FALSE ],
          [ en |-> TRUE,  data |-> Undefined, err |-> Undefined, loading |-> TRUE ],
          [ en |-> TRUE,  data |-> Undefined, err |-> failed,    loading |-> FALSE ] }
        \cup { [ en |-> TRUE, data |-> fetcher(r).value, err |-> e, loading |-> FALSE ]
               : r \in RouteSuccess(p, m), e \in { Undefined, failed } }

----------------------------------------------------------------------------
(* State machine of one render of useUnifiedPrices *)

AggMounted ==
    /\ view = Undefined
    /\ apc = "mounted"

Held(st) == TokenCount(st.data)

AggInit ==
    /\ \E uni \in HookStates("uni", MaxTokens) :
       \E sushi \in HookStates("sushi", MaxTokens - Held(uni)) :
       \E quick \in HookStates("quick", MaxTokens - Held(uni) - Held(sushi)) :
       \E cake \in HookStates("cake", MaxTokens - Held(uni) - Held(sushi) - Held(quick)) :
       LET hooks == [ p \in ProtocolSet |->
                        CASE p = "uni" -> uni [] p = "sushi" -> sushi
                          [] p = "quick" -> quick [] p = "cake" -> cake ]
       IN  /\ enabled    = [ p \in ProtocolSet |-> hooks[p].en ]
           /\ swrData    = [ p \in ProtocolSet |-> hooks[p].data ]
           /\ swrErr     = [ p \in ProtocolSet |-> hooks[p].err ]
           /\ swrLoading = [ p \in ProtocolSet |-> hooks[p].loading ]
    /\ AggMounted

\* lines 29-120
RenderHook ==
    /\ apc = "mounted"
    /\ view' = Render(enabled, swrData, swrErr, swrLoading)
    /\ apc' = "rendered"
    /\ UNCHANGED <<enabled, swrData, swrErr, swrLoading>>

----------------------------------------------------------------------------
(* useCoinHistory, hooks/useCoinHistory.ts (src/unnamed/part_000) *)

Sources == { "cg", "bin" }

Pending == [ status |-> "pending" ]

\* lines 27-28
take(r) == IF r.status = "fulfilled" THEN r.value ELSE <<>>

\* what fromCoinGecko can resolve with: candles without volume (coingecko.ts 20-27)
CgCandles == { c \in Candles : "volume" \notin DOMAIN c }

\* what fromBinance can resolve with: candles with volume (part_003 23-30)
BinCandles == { c \in Candles : "volume" \in DOMAIN c }

\* how an adapter's promise can settle: fulfilled with a history of at most m
\* candles, or rejected (json throws on a non-ok status, map on a body that is no array)
Outcomes(s, cs, m) ==
    { [ status |-> "fulfilled", value |-> h ] : h \in SeqsUpTo(cs, m) }
        \cup { [ status |-> "rejected", reason |-> s ] }

HistIdle ==
    /\ settled = [ s \in Sources |-> Pending ]
    /\ hpc = "idle"
    /\ hData = Pending

HistInit ==
    /\ useMock \in BOOLEAN
    /\ \E cg \in Outcomes("cg", CgCandles, MaxCandles) :
       \E bin \in Outcomes("bin", BinCandles, MaxCandles - Len(take(cg))) :
          upstream = [ s \in Sources |-> IF s = "cg" THEN cg ELSE bin ]
    /\ HistIdle

\* line 20: the mock branch resolves at once with genMock's series
FetchMock ==
    /\ hpc = "idle"
    /\ useMock
    /\ hpc' = "done"
    /\ hData' = [ status |-> "fulfilled", mock |-> TRUE ]
    /\ UNCHANGED <<useMock, upstream, settled>>

\* lines 22-25: fromCoinGecko and fromBinance are both called, then the fetcher
\* awaits Promise.allSettled
FetchBoth ==
    /\ hpc = "idle"
    /\ ~useMock
    /\ hpc' = "awaiting"
    /\ UNCHANGED <<useMock, upstream, settled, hData>>

\* source s's promise settles, in either order
SettleSource(s) ==
    /\ hpc = "awaiting"
    /\ settled[s] = Pending
    /\ settled' = [ settled EXCEPT ![s] = upstream[s] ]
    /\ UNCHANGED <<useMock, upstream, hpc, hData>>

\* the fetcher with Promise.all for Promise.allSettled: the first rejection rejects
AwaitAll(st) ==
    IF \E s \in Sources : st[s].status = "rejected"
    THEN LET s == IF st["cg"].status = "rejected" THEN "cg" ELSE "bin"
         IN  [ status |-> "rejected", reason |-> st[s].reason ]
    ELSE [ status |-> "fulfilled",
           value  |-> mergeHistories(<< st["cg"].value, st["bin"].value >>) ]

\* lines 22-30: what the fetcher's promise settles with once both results are in
AwaitAllSettled(st) ==
    [ status |-> "fulfilled",
      value  |-> mergeHistories(<< take(st["cg"]), take(st["bin"]) >>) ]

\* lines 22-30: allSettled resolves once both have settled; the merge is returned
ReturnMerged ==
    /\ hpc = "awaiting"
    /\ \A s \in Sources : settled[s] # Pending
    /\ hpc' = "done"
    /\ hData' = AwaitAllSettled(settled)
    /\ UNCHANGED <<useMock, upstream, settled>>

\* TokenPage.tsx lines 21-39, on the state of the hook's promise: the failure line when
\* error is set, the loading line while there is no data, else the chart of the data
\* (an empty array is data)
TokenPage(result) ==
    IF result.status = "rejected" THEN [ shows |-> "Failed to load", error |-> result.reason ]
    ELSE IF result.status = "pending" THEN [ shows |-> "Loading" ]
    ELSE IF "value" \in DOMAIN result THEN [ shows |-> "CandleChart", data |-> result.value ]
    ELSE [ shows |-> "CandleChart" ]

----------------------------------------------------------------------------
(* JavaScript values as the candle adapters meet them.  A parsed JSON object *)
(* is a record; the other values are tagged: an array is [arr |-> items], a  *)
(* number [num |-> n], a string [str |-> characters], null is Null and a     *)
(* missing property or element is Undefined.                                 *)

Null == [ null |-> TRUE ]
NaN == [ nan |-> TRUE ]
JNum(n) == [ num |-> n ]
JStr(s) == [ str |-> s ]
JArr(xs) == [ arr |-> xs ]

IsNullish(v) == v = Null \/ v = Undefined

\* a settled promise
Fulfil(v) == [ status |-> "fulfilled", value |-> v ]
Reject(r) == [ status |-> "rejected", reason |-> r ]

\* the value of a run of decimal digits
RECURSIVE DigitsValue(_, _)
DigitsValue(s, acc) ==
    LET Digits == << "0","1","2","3","4","5","6","7","8","9" >>
    IN  IF s = <<>> THEN acc
        ELSE DigitsValue(Tail(s), acc * 10 + (CHOOSE i \in 1..Len(Digits) : Digits[i] = Head(s)) - 1)

\* Number(v) and unary +v.  Of a string: white space is trimmed, the empty string is
\* 0, a signed run of digits is its value, anything else is NaN (the model's numbers
\* are integers)
ToNumber(v) ==
    LET AllDigits(s) == s # <<>> /\ \A i \in 1..Len(s) : s[i] \in { "0","1","2","3","4","5","6","7","8","9" }
        StringToNumber(s) ==
            LET t == Trim(s)
            IN  IF t = <<>> THEN JNum(0)
                ELSE IF AllDigits(t) THEN JNum(DigitsValue(t, 0))
                ELSE IF Head(t) = "-" /\ AllDigits(Tail(t)) THEN JNum(0 - DigitsValue(Tail(t), 0))
                ELSE NaN
    IN  CASE "num" \in DOMAIN v -> v
          [] "nan" \in DOMAIN v -> NaN
          [] "str" \in DOMAIN v -> StringToNumber(v.str)
          [] v = Null           -> JNum(0)
          [] v = Undefined      -> NaN

\* k[i] of an array k, i counted from 0
ElementAt(k, i) == IF i < Len(k.arr) THEN k.arr[i + 1] ELSE Undefined

\* Math.floor(v / 1000)
FloorSeconds(v) ==
    LET n == ToNumber(v) IN IF n = NaN THEN NaN ELSE JNum(n.num \div 1000)

\* String.prototype.toLowerCase
ToLowerCase(s) ==
    LET LowerTable ==
            [ c \in Range(UpperCase) |-> LowerCase[CHOOSE i \in 1..Len(UpperCase) : UpperCase[i] = c] ]
    IN  [ i \in 1..Len(s) |-> IF s[i] \in DOMAIN LowerTable THEN LowerTable[s[i]] ELSE s[i] ]

----------------------------------------------------------------------------
(* The candle adapters: lib/history.ts, lib/token/binance.ts (src/unnamed/   *)
(* part_003) and lib/token/coingecko.ts.  A response is what fetch resolved  *)
(* with: ok, status, whether the body parses as JSON, and the parsed body;   *)
(* NetworkError is a fetch that rejected.                                    *)

NetworkError == [ rejected |-> TRUE ]

\* the array's map callback reads a property of a row that is null or undefined
ThrowsOnRow(rows) == \E i \in 1..Len(rows) : IsNullish(rows[i])

\* history.ts lines 27-30, part_003 lines 23-30: one kline row to a candle
KlineCandle(k) ==
    [ time   |-> FloorSeconds(ElementAt(k, 0)),
      open   |-> ToNumber(ElementAt(k, 1)),
      high   |-> ToNumber(ElementAt(k, 2)),
      low    |-> ToNumber(ElementAt(k, 3)),
      close  |-> ToNumber(ElementAt(k, 4)),
      volume |-> ToNumber(ElementAt(k, 5)) ]

\* history.ts lines 18-31, on the response to the klines request
fetchCandlesBinance(resp) ==
    IF resp = NetworkError THEN Reject("TypeError: fetch failed")
    ELSE IF ~resp.ok THEN Fulfil(Null)
    ELSE IF ~resp.isJson THEN Reject("SyntaxError")
    ELSE IF "arr" \notin DOMAIN resp.body THEN Fulfil(Null)
    ELSE IF ThrowsOnRow(resp.body.arr) THEN Reject("TypeError")
    ELSE Fulfil(JArr([ i \in 1..Len(resp.body.arr) |-> KlineCandle(resp.body.arr[i]) ]))

\* history.ts lines 33-41, on the response to the search request: j?.coins, the
\* first coin whose symbol, lowercased, is q, else the first coin; coin?.id || null
resolveCoingeckoId(resp, symbol) ==
    LET CoinsOf(j) ==
            IF IsNullish(j) \/ "coins" \notin DOMAIN j \/ IsNullish(j.coins) THEN <<>>
            ELSE j.coins.arr
        PickCoin(coins, q) ==
            LET hits == { i \in 1..Len(coins) :
                            /\ ~IsNullish(coins[i])
                            /\ "symbol" \in DOMAIN coins[i]
                            /\ ~IsNullish(coins[i].symbol)
                            /\ ToLowerCase(coins[i].symbol.str) = q }
            IN  IF hits # {} THEN coins[CHOOSE i \in hits : \A j \in hits : i =< j]
                ELSE IF coins # <<>> THEN coins[1]
                ELSE Undefined
    IN  IF resp = NetworkError THEN Reject("TypeError: fetch failed")
        ELSE IF ~resp.ok THEN Fulfil(Null)
        ELSE IF ~resp.isJson THEN Reject("SyntaxError")
        ELSE LET coin == PickCoin(CoinsOf(resp.body), ToLowerCase(symbol))
             IN  IF IsNullish(coin) \/ "id" \notin DOMAIN coin THEN Fulfil(Null)
                 ELSE IF IsNullish(coin.id) \/ coin.id.str = <<>> THEN Fulfil(Null)
                 ELSE Fulfil(coin.id)

\* history.ts lines 50-60, on the response to the market_chart request: j?.prices || [],
\* each [ms, p] pair to a candle with o = h = l = c
MarketChart(resp) ==
    LET PricesOf(j) ==
            IF IsNullish(j) \/ "prices" \notin DOMAIN j \/ IsNullish(j.prices) THEN <<>>
            ELSE j.prices.arr
        PriceCandle(row) ==
            LET v == ToNumber(ElementAt(row, 1))
            IN  [ time |-> FloorSeconds(ElementAt(row, 0)),
                  open |-> v, high |-> v, low |-> v, close |-> v, volume |-> JNum(0) ]
    IN  IF resp = NetworkError THEN Reject("TypeError: fetch failed")
        ELSE IF ~resp.ok THEN Fulfil(Null)
        ELSE IF ~resp.isJson THEN Reject("SyntaxError")
        ELSE LET prices == PricesOf(resp.body)
             IN  IF prices = <<>> THEN Fulfil(Null)
                 ELSE IF ThrowsOnRow(prices) THEN Reject("TypeError")
                 ELSE Fulfil(JArr([ i \in 1..Len(prices) |-> PriceCandle(prices[i]) ]))

\* part_003 lines 4-8, coingecko.ts lines 4-8: json(url), on the response
json(resp) ==
    IF resp = NetworkError THEN Reject("TypeError: fetch failed")
    ELSE IF ~resp.ok THEN Reject("status")
    ELSE IF ~resp.isJson THEN Reject("SyntaxError")
    ELSE Fulfil(resp.body)

\* part_003 lines 12-31, on the response to the klines request
fromBinance(resp) ==
    LET data == json(resp)
    IN  IF data.status = "rejected" THEN data
        ELSE IF "arr" \notin DOMAIN data.value THEN Reject("TypeError")
        ELSE IF ThrowsOnRow(data.value.arr) THEN Reject("TypeError")
        ELSE Fulfil(JArr([ i \in 1..Len(data.value.arr) |-> KlineCandle(data.value.arr[i]) ]))

\* coingecko.ts lines 11-28, on the response to the ohlc request; each [t, o, h, l, c]
\* row to a candle
fromCoinGecko(resp) ==
    LET data == json(resp)
        OhlcCandle(row) ==
            [ time  |-> FloorSeconds(ElementAt(row, 0)),
              open  |-> ElementAt(row, 1),
              high  |-> ElementAt(row, 2),
              low   |-> ElementAt(row, 3),
              close |-> ElementAt(row, 4) ]
    IN  IF data.status = "rejected" THEN data
        ELSE IF "arr" \notin DOMAIN data.value THEN Reject("TypeError")
        ELSE IF ThrowsOnRow(data.value.arr) THEN Reject("TypeError")
        ELSE Fulfil(JArr([ i \in 1..Len(data.value.arr) |-> OhlcCandle(data.value.arr[i]) ]))

\* history.ts lines 64 and 66: promise.catch(() => null), awaited
CatchNull(outcome) == IF outcome.status = "rejected" THEN Null ELSE outcome.value

\* line 65 without the length test
BinanceSufficesAnyArray(bin) == bin # Null

\* history.ts line 65: bin && bin.length
BinanceSuffices(bin) == bin # Null /\ bin.arr # <<>>

\* history.ts line 67: cg || []
OrEmpty(cg) == IF cg = Null THEN JArr(<<>>) ELSE cg

----------------------------------------------------------------------------
(* The upstream responses the candle adapters are run on *)

MaxRows == 3

\* a response with a JSON body, a response whose body is not JSON
JsonResponse(ok, status, body) == [ ok |-> ok, status |-> status, isJson |-> TRUE, body |-> body ]
TextResponse(ok, status) == [ ok |-> ok, status |-> status, isJson |-> FALSE, body |-> Undefined ]

\* what an endpoint can answer: no answer, an error status, a page that is no JSON,
\* or 200 with a body.  Binance klines rows are [openTime, open, high, low, close,
\* volume, ...], CoinGecko's search answers {coins: [{id, symbol}, ...]}, its
\* market_chart rows are [ms, price] and its ohlc rows [t, o, h, l, c]; among the rows
\* are one that lacks its fields and null in place of a row
UpstreamResponses(endpoint) ==
    LET Responses(errBody, bodies) ==
            { NetworkError, JsonResponse(FALSE, 400, errBody), TextResponse(FALSE, 502),
              TextResponse(TRUE, 200) }
                \cup { JsonResponse(TRUE, 200, b) : b \in bodies }
        KlineRows ==
            { JArr(<< JNum(1000), JStr(<<"2","0">>), JStr(<<"2","4">>), JStr(<<"1","8">>),
                      JStr(<<"2","2">>), JStr(<<"5">>) >>),
              JArr(<< JNum(2500), JStr(<<"2","1">>), JStr(<<"2","3">>), JStr(<<"1","9">>),
                      JStr(<<"2","1">>), JStr(<<"7">>) >>),
              JArr(<< JNum(1000) >>),
              Null }
        Coin(id, symbol) == [ id |-> JStr(id), symbol |-> JStr(symbol) ]
        PriceRows ==
            { JArr(<< JNum(1000), JNum(20) >>), JArr(<< JNum(2500), JNum(21) >>),
              JArr(<< JNum(1000) >>), Null }
        OhlcRows ==
            { JArr(<< JNum(1000), JNum(20), JNum(24), JNum(18), JNum(22) >>),
              JArr(<< JNum(2500), JNum(21), JNum(23), JNum(19), JNum(21) >>),
              JArr(<< JNum(1000) >>), Null }
        Failure == [ error |-> JStr(<<"e">>) ]
    IN  CASE endpoint = "klines" ->
               Responses([ code |-> JNum(0 - 1121) ],
                         { JArr(rows) : rows \in SeqsUpTo(KlineRows, MaxRows) }
                             \cup { [ code |-> JNum(0 - 1121) ], Null })
          [] endpoint = "search" ->
               Responses(Failure,
                         { [ coins |-> JArr(<<>>) ],
                           [ coins |-> JArr(<< Coin(<<"b","t","c">>, <<"b","t","c">>) >>) ],
                           [ coins |-> JArr(<< Coin(<<"w">>, <<"w","b","t","c">>),
                                               Coin(<<"b","t","c">>, <<"B","T","C">>) >>) ],
                           [ coins |-> JArr(<< Coin(<<"b","c","h">>, <<"b","c","h">>) >>) ],
                           [ coins |-> JArr(<< [ symbol |-> JStr(<<"b","t","c">>) ] >>) ],
                           Failure,
                           Null })
          [] endpoint = "chart" ->
               Responses(Failure,
                         { [ prices |-> JArr(rows) ] : rows \in SeqsUpTo(PriceRows, MaxRows) }
                             \cup { Failure, Null })
          [] endpoint = "ohlc" ->
               Responses(Failure,
                         { JArr(rows) : rows \in SeqsUpTo(OhlcRows, MaxRows) }
                             \cup { Failure, Null })

----------------------------------------------------------------------------
(* getCandles (lib/history.ts) and the two token adapters as a state machine: *)
(* cOp is the function that was called, each response arrives in its own step *)

Unasked == [ unasked |-> TRUE ]

Request(by, endpoint) == [ by |-> by, endpoint |-> endpoint ]

CandlesInit ==
    /\ cOp \in { "getCandles", "fromBinance", "fromCoinGecko" }
    /\ cSymbol = << "B", "t", "c" >>
    /\ cpc = "idle"
    /\ cNet = <<>>
    /\ cSeen = [ e \in { "klines", "search", "chart", "ohlc" } |-> Unasked ]
    /\ cSettled = [ a \in { "fetchCandlesBinance", "fetchCandlesCoingecko",
                             "fromBinance", "fromCoinGecko" } |-> Pending ]
    /\ cOut = Pending

\* history.ts line 64 (lines 18-23): getCandles calls fetchCandlesBinance, which
\* requests the klines
GetCandles ==
    /\ cOp = "getCandles" /\ cpc = "idle"
    /\ cpc' = "binance"
    /\ cNet' = Append(cNet, Request("fetchCandlesBinance", "klines"))
    /\ UNCHANGED <<cOp, cSymbol, cSeen, cSettled, cOut>>

\* history.ts lines 64-66: fetchCandlesBinance settles; getCandles returns its candles
\* or calls fetchCandlesCoingecko, which requests the search (lines 45, 36)
BinanceResponds ==
    /\ cpc = "binance"
    /\ \E resp \in UpstreamResponses("klines") :
         LET out == fetchCandlesBinance(resp)
             bin == CatchNull(out)
         IN  /\ cSeen' = [ cSeen EXCEPT !["klines"] = resp ]
             /\ cSettled' = [ cSettled EXCEPT !["fetchCandlesBinance"] = out ]
             /\ IF BinanceSuffices(bin)
                THEN /\ cOut' = Fulfil(bin)
                     /\ cpc' = "done"
                     /\ cNet' = cNet
                ELSE /\ cOut' = cOut
                     /\ cpc' = "search"
                     /\ cNet' = Append(cNet, Request("fetchCandlesCoingecko", "search"))
    /\ UNCHANGED <<cOp, cSymbol>>

\* history.ts lines 45-51, 66-67: the search settles; without an id
\* fetchCandlesCoingecko is over, with one it requests the market chart
SearchResponds ==
    /\ cpc = "search"
    /\ \E resp \in UpstreamResponses("search") :
         LET id == resolveCoingeckoId(resp, cSymbol)
         IN  /\ cSeen' = [ cSeen EXCEPT !["search"] = resp ]
             /\ IF id.status = "rejected" \/ id.value = Null
                THEN /\ cSettled' = [ cSettled EXCEPT !["fetchCandlesCoingecko"] = id ]
                     /\ cOut' = Fulfil(OrEmpty(CatchNull(id)))
                     /\ cpc' = "done"
                     /\ cNet' = cNet
                ELSE /\ UNCHANGED <<cSettled, cOut>>
                     /\ cpc' = "chart"
                     /\ cNet' = Append(cNet, Request("fetchCandlesCoingecko", "chart"))
    /\ UNCHANGED <<cOp, cSymbol>>

\* history.ts lines 52-60, 66-67: the market chart settles and getCandles returns
ChartResponds ==
    /\ cpc = "chart"
    /\ \E resp \in UpstreamResponses("chart") :
         LET out == MarketChart(resp)
         IN  /\ cSeen' = [ cSeen EXCEPT !["chart"] = resp ]
             /\ cSettled' = [ cSettled EXCEPT !["fetchCandlesCoingecko"] = out ]
             /\ cOut' = Fulfil(OrEmpty(CatchNull(out)))
    /\ cpc' = "done"
    /\ UNCHANGED <<cOp, cSymbol, cNet>>

\* part_003 lines 12-21: fromBinance requests the klines
FromBinance ==
    /\ cOp = "fromBinance" /\ cpc = "idle"
    /\ cpc' = "klines"
    /\ cNet' = Append(cNet, Request("fromBinance", "klines"))
    /\ UNCHANGED <<cOp, cSymbol, cSeen, cSettled, cOut>>

\* part_003 lines 19-30
KlinesResponds ==
    /\ cpc = "klines"
    /\ \E resp \in UpstreamResponses("klines") :
         /\ cSeen' = [ cSeen EXCEPT !["klines"] = resp ]
         /\ cSettled' = [ cSettled EXCEPT !["fromBinance"] = fromBinance(resp) ]
         /\ cOut' = fromBinance(resp)
    /\ cpc' = "done"
    /\ UNCHANGED <<cOp, cSymbol, cNet>>

\* coingecko.ts lines 11-18: fromCoinGecko requests the ohlc series
FromCoinGecko ==
    /\ cOp = "fromCoinGecko" /\ cpc = "idle"
    /\ cpc' = "ohlc"
    /\ cNet' = Append(cNet, Request("fromCoinGecko", "ohlc"))
    /\ UNCHANGED <<cOp, cSymbol, cSeen, cSettled, cOut>>

\* coingecko.ts lines 16-27
OhlcResponds ==
    /\ cpc = "ohlc"
    /\ \E resp \in UpstreamResponses("ohlc") :
         /\ cSeen' = [ cSeen EXCEPT !["ohlc"] = resp ]
         /\ cSettled' = [ cSettled EXCEPT !["fromCoinGecko"] = fromCoinGecko(resp) ]
         /\ cOut' = fromCoinGecko(resp)
    /\ cpc' = "done"
    /\ UNCHANGED <<cOp, cSymbol, cNet>>

----------------------------------------------------------------------------
(* The DEX snapshot adapters: lib/markets/thegraph.ts and sushiswapV3.ts     *)
(* (src/unnamed/part_002), uniswapV3.ts, quickswapV3.ts, pancakeswapV3.ts.   *)
(* An Error is a record with its message; an environment variable that is   *)
(* not set is the empty string.                                              *)

AVG_BLOCK_TIME == 12

Error(msg) == [ message |-> msg ]

\* JavaScript truthiness of a JSON value
Truthy(v) ==
    CASE IsNullish(v)      -> FALSE
      [] v = NaN           -> FALSE
      [] "num" \in DOMAIN v -> v.num # 0
      [] "str" \in DOMAIN v -> v.str # <<>>
      [] OTHER             -> TRUE

\* a * b on numbers
Multiply(a, b) == IF a = NaN \/ b = NaN THEN NaN ELSE JNum(a.num * b.num)

\* part_002 lines 6-10: the key, or the Error thrown when neither variable is set
subgraphUrl(env) ==
    LET key == IF env.THEGRAPH_API_KEY # "" THEN env.THEGRAPH_API_KEY ELSE env.ABI_KEY
    IN  IF key = ""
        THEN Reject(Error("Missing THEGRAPH_API_KEY (or ABI_KEY) in env"))
        ELSE Fulfil(key)

\* part_002 lines 19-21 with the errors test left out
gqlFetchIgnoringErrors(resp) ==
    IF resp = NetworkError THEN Reject(Error("fetch failed"))
    ELSE IF ~resp.isJson THEN Reject(Error("SyntaxError"))
    ELSE IF IsNullish(resp.body) THEN Reject(Error("TypeError"))
    ELSE Fulfil(IF "data" \in DOMAIN resp.body THEN resp.body.data ELSE Undefined)

\* part_002 lines 12-22, on the response to the POST: json.data, or the Error thrown
\* (its message is the serialised errors array, kept here as the array)
gqlFetch(resp) ==
    IF resp = NetworkError THEN Reject(Error("fetch failed"))
    ELSE IF ~resp.isJson THEN Reject(Error("SyntaxError"))
    ELSE IF IsNullish(resp.body) THEN Reject(Error("TypeError"))
    ELSE IF "errors" \in DOMAIN resp.body /\ Truthy(resp.body.errors)
    THEN Reject([ message |-> "errors", errors |-> resp.body.errors ])
    ELSE Fulfil(IF "data" \in DOMAIN resp.body THEN resp.body.data ELSE Undefined)

\* d.name where d is what gqlFetch resolved with: a TypeError when d is null or undefined
Field(d, name) ==
    IF IsNullish(d) THEN Reject(Error("TypeError"))
    ELSE Fulfil(IF name \in DOMAIN d THEN d[name] ELSE Undefined)

\* outcome, then .name1.name2... of what it resolved with
RECURSIVE Path(_, _)
Path(outcome, names) ==
    IF outcome.status = "rejected" \/ names = <<>> THEN outcome
    ELSE Path(Field(outcome.value, Head(names)), Tail(names))

\* getCurrentBlock: d._meta.block.number
getCurrentBlock(resp) == Path(gqlFetch(resp), << "_meta", "block", "number" >>)

\* the anchor block with the division left out
AnchorBlockNoDivision(current, secondsAgo) == current - secondsAgo

\* bn = secondsAgo === 0 ? current : current - Math.floor(secondsAgo / AVG_BLOCK_TIME)
AnchorBlock(current, secondsAgo) ==
    IF secondsAgo = 0 THEN current ELSE current - (secondsAgo \div AVG_BLOCK_TIME)

\* the bundle field that holds the base asset's USD price
BaseField(p) == IF p = "quick" THEN "maticPriceUSD" ELSE "ethPriceUSD"

\* basePrice / basePriceUSD: Number(d.bundles[0].ethPriceUSD)
basePrice(p, resp) ==
    LET bundles == Path(gqlFetch(resp), << "bundles" >>)
    IN  IF bundles.status = "rejected" THEN bundles
        ELSE IF IsNullish(bundles.value) THEN Reject(Error("TypeError"))
        ELSE LET price == Field(ElementAt(bundles.value, 0), BaseField(p))
             IN  IF price.status = "rejected" THEN price ELSE Fulfil(ToNumber(price.value))

\* topTokens: d.tokens
topTokens(resp) == Path(gqlFetch(resp), << "tokens" >>)

\* topPools: d.pools
topPools(resp) == Path(gqlFetch(resp), << "pools" >>)

\* quickswapV3.ts lines 23-39 and 42-58: d.tokens.map(t => ({ symbol, [field] }))
topTokensDerived(field, resp) ==
    LET tokens == topTokens(resp)
    IN  IF tokens.status = "rejected" THEN tokens
        ELSE IF IsNullish(tokens.value) \/ ThrowsOnRow(tokens.value.arr)
        THEN Reject(Error("TypeError"))
        ELSE Fulfil(JArr([ i \in 1..Len(tokens.value.arr) |->
                        [ symbol |-> Field(tokens.value.arr[i], "symbol").value,
                          derived |-> Field(tokens.value.arr[i], field).value ] ]))

\* the filter without the price test
KeepNamed(ts) == SelectSeq(ts, LAMBDA t : Truthy(t.symbol))

\* .filter(t => t.symbol && t.priceUSD > 0)
KeepPriced(ts) ==
    SelectSeq(ts, LAMBDA t : Truthy(t.symbol) /\ t.priceUSD # NaN /\ t.priceUSD.num > 0)

\* uniswapV3.ts 54-56, part_002 71-73, pancakeswapV3.ts 57-59:
\* tokens.map(t => ({ symbol, priceUSD: Number(t.derivedETH) * ethUSD })).filter(...)
tokenPrices(tokens, baseUSD) ==
    IF IsNullish(tokens) \/ ThrowsOnRow(tokens.arr) THEN Reject(Error("TypeError"))
    ELSE Fulfil(KeepPriced([ i \in 1..Len(tokens.arr) |->
                    [ symbol   |-> Field(tokens.arr[i], "symbol").value,
                      priceUSD |-> Multiply(ToNumber(Field(tokens.arr[i], "derivedETH").value), baseUSD) ] ]))

\* quickswapV3.ts lines 90-95: (t.derivedMatic ? Number(t.derivedMatic) : 0) * maticUSD
tokensFromDerivedMatic(rows, maticUSD) ==
    KeepPriced([ i \in 1..Len(rows.arr) |->
        [ symbol   |-> rows.arr[i].symbol,
          priceUSD |-> Multiply(IF Truthy(rows.arr[i].derived)
                             THEN ToNumber(rows.arr[i].derived) ELSE JNum(0), maticUSD) ] ])

\* the fallback with the multiplication kept
tokensFromDerivedUSDTimesBase(rows, maticUSD) == tokensFromDerivedMatic(rows, maticUSD)

\* quickswapV3.ts lines 98-103: t.derivedUSD ? Number(t.derivedUSD) : 0
tokensFromDerivedUSD(rows, maticUSD) ==
    KeepPriced([ i \in 1..Len(rows.arr) |->
        [ symbol   |-> rows.arr[i].symbol,
          priceUSD |-> IF Truthy(rows.arr[i].derived)
                       THEN ToNumber(rows.arr[i].derived) ELSE JNum(0) ] ])

\* `${p.token0.symbol}/${p.token1.symbol}` and Number(p.tick)
poolsData(pools) ==
    IF IsNullish(pools) \/ ThrowsOnRow(pools.arr) THEN Reject(Error("TypeError"))
    ELSE IF \E i \in 1..Len(pools.arr) :
              IsNullish(Field(pools.arr[i], "token0").value) \/ IsNullish(Field(pools.arr[i], "token1").value)
    THEN Reject(Error("TypeError"))
    ELSE Fulfil([ i \in 1..Len(pools.arr) |->
                    [ pair |-> pools.arr[i].token0.symbol.str \o <<"/">> \o pools.arr[i].token1.symbol.str,
                      tick |-> ToNumber(Field(pools.arr[i], "tick").value) ] ])

\* return { blockNumber: bn, secondsAgo, tokens, pools }
Snapshot(bn, secondsAgo, tokens, pools) ==
    IF tokens.status = "rejected" THEN tokens
    ELSE IF pools.status = "rejected" THEN pools
    ELSE Fulfil([ blockNumber |-> bn, secondsAgo |-> secondsAgo,
                  tokens |-> tokens.value, pools |-> pools.value ])

----------------------------------------------------------------------------
(* The subgraph's answers the snapshot adapters are run on *)

MaxSnapTokens == 2

\* the field the tokens query of protocol p asks for
DerivedField(p) == IF p = "quick" THEN "derivedMatic" ELSE "derivedETH"

\* the answers query q of protocol p can get.  Every query: no answer, or a 200 that
\* carries an errors array.  The block query also: a page that is no JSON, a 401 with a
\* JSON message, data: null; its data has the current block 1000 or 1007.  The base
\* price is 2, 0 or -1, or the block has no bundle.  Token rows are a priced token, one
\* without symbol, and derived prices that are zero, negative, null and not a number;
\* one tokens answer has data and errors together, one has data: null.
AnswersFor(p, q) ==
    LET GraphErrors == JArr(<< [ message |-> JStr(<<"e">>) ] >>)
        FailedAnswers == { NetworkError, JsonResponse(TRUE, 200, [ errors |-> GraphErrors ]) }
        DataAnswers(ds) == { JsonResponse(TRUE, 200, [ data |-> d ]) : d \in ds }
        TokenRow(sym, field, derived) ==
            [ f \in { "symbol", field } |-> IF f = "symbol" THEN sym ELSE derived ]
        TokenRows(field) ==
            { TokenRow(JStr(<<"A">>), field, JStr(<<"3">>)),
              TokenRow(JStr(<<>>), field, JStr(<<"3">>)),
              TokenRow(JStr(<<"C">>), field, JStr(<<"0">>)),
              TokenRow(JStr(<<"C">>), field, JStr(<<"-","1">>)),
              TokenRow(JStr(<<"C">>), field, Null),
              TokenRow(JStr(<<"C">>), field, JStr(<<"x">>)) }
        TokenAnswers(field) ==
            FailedAnswers
                \cup DataAnswers({ [ tokens |-> JArr(rows) ] :
                                     rows \in SeqsUpTo(TokenRows(field), MaxSnapTokens) })
                \cup { JsonResponse(TRUE, 200,
                         [ data |-> [ tokens |-> JArr(<< TokenRow(JStr(<<"A">>), field, JStr(<<"3">>)) >>) ],
                           errors |-> GraphErrors ]),
                       JsonResponse(TRUE, 200, [ data |-> Null ]) }
        PoolRow(a, b) ==
            [ token0 |-> [ symbol |-> JStr(a) ], token1 |-> [ symbol |-> JStr(b) ],
              tick |-> JStr(<<"5">>) ]
    IN  CASE q = "block" ->
               FailedAnswers
                   \cup { TextResponse(FALSE, 502),
                          JsonResponse(FALSE, 401, [ message |-> JStr(<<"e">>) ]),
                          JsonResponse(TRUE, 200, [ data |-> Null ]) }
                   \cup DataAnswers({ [ _meta |-> [ block |-> [ number |-> JNum(n) ] ] ] :
                                        n \in { 1000, 1007 } })
          [] q = "base" ->
               FailedAnswers
                   \cup DataAnswers({ [ bundles |-> JArr(<< [ f \in { BaseField(p) } |-> JStr(price) ] >>) ] :
                                        price \in { <<"2">>, <<"0">>, <<"-", "1">> } })
                   \cup DataAnswers({ [ bundles |-> JArr(<<>>) ] })
          [] q = "tokens"    -> TokenAnswers(DerivedField(p))
          [] q = "tokensUSD" -> TokenAnswers("derivedUSD")
          [] q = "pools" ->
               FailedAnswers
                   \cup DataAnswers({ [ pools |-> JArr(<<>>) ],
                                      [ pools |-> JArr(<< PoolRow(<<"A">>, <<"W">>) >>) ],
                                      [ pools |-> JArr(<< Null >>) ] })
          \* the Token API: a 401 with an error message, a page that is no JSON, rows
          [] q = "ohlc" ->
               { NetworkError,
                 JsonResponse(FALSE, 401, [ error |-> "unauthorized" ]),
                 JsonResponse(FALSE, 500, [ message |-> "upstream" ]),
                 JsonResponse(FALSE, 404, Null),
                 TextResponse(FALSE, 502),
                 JsonResponse(TRUE, 200, [ data |-> JArr(<<>>) ]) }

----------------------------------------------------------------------------
(* fetch<Protocol>V3Snapshot as a state machine: the queries go out, their    *)
(* answers arrive one per step, in any order                                  *)

Queries == { "block", "base", "tokens", "pools", "tokensUSD" }

Awaiting == [ awaiting |-> TRUE ]

\* one POST to the gateway: the query, the block it is anchored to and its page size
Query(q, bn, first) == [ query |-> q, block |-> bn, first |-> first ]

SnapInit ==
    /\ sProto \in ProtocolSet \cup { "tokenApi" }
    /\ sArgs \in { [ secondsAgo |-> 0, first |-> 300 ], [ secondsAgo |-> 11, first |-> 300 ],
                   [ secondsAgo |-> 12, first |-> 300 ], [ secondsAgo |-> 25, first |-> 5 ] }
    /\ sEnv \in { [ THEGRAPH_API_KEY |-> "", ABI_KEY |-> "", TOKEN_API_JWT |-> "" ],
                  [ THEGRAPH_API_KEY |-> "k1", ABI_KEY |-> "", TOKEN_API_JWT |-> "" ],
                  [ THEGRAPH_API_KEY |-> "", ABI_KEY |-> "k2", TOKEN_API_JWT |-> "" ],
                  [ THEGRAPH_API_KEY |-> "", ABI_KEY |-> "", TOKEN_API_JWT |-> "j" ] }
    /\ spc = "idle"
    /\ sNet = <<>>
    /\ sSeen = [ q \in Queries \cup { "ohlc" } |-> Unasked ]
    /\ sBn = NoNumber
    /\ sOut = Pending

\* the queries Promise.all is given, in the order they are called
ParallelQueries(p) == IF p = "quick" THEN << "base", "pools" >> ELSE << "base", "tokens", "pools" >>

\* what a query's function resolves with on its answer
QueryOutcome(p, q, resp) ==
    CASE q = "block"  -> getCurrentBlock(resp)
      [] q = "base"   -> basePrice(p, resp)
      [] q = "tokens" -> IF p = "quick" THEN topTokensDerived("derivedMatic", resp) ELSE topTokens(resp)
      [] q = "tokensUSD" -> topTokensDerived("derivedUSD", resp)
      [] q = "pools"  -> topPools(resp)

\* line 1 of each adapter: getCurrentBlock calls gqlFetch, which builds the url (and
\* throws without a key) before it fetches
CallSnapshot ==
    /\ spc = "idle" /\ sProto \in ProtocolSet
    /\ IF subgraphUrl(sEnv).status = "rejected"
       THEN /\ sOut' = subgraphUrl(sEnv)
            /\ spc' = "done"
            /\ UNCHANGED <<sNet, sSeen>>
       ELSE /\ sNet' = << Query("block", NoNumber, NoNumber) >>
            /\ sSeen' = [ sSeen EXCEPT !["block"] = Awaiting ]
            /\ spc' = "block"
            /\ sOut' = sOut
    /\ UNCHANGED <<sProto, sArgs, sEnv, sBn>>

\* the current block arrives: bn is computed and the parallel queries are called
BlockResponds ==
    /\ spc = "block"
    /\ \E resp \in AnswersFor(sProto, "block") :
         LET current == getCurrentBlock(resp)
             bn == AnchorBlock(current.value.num, sArgs.secondsAgo)
             qs == ParallelQueries(sProto)
         IN  /\ IF current.status = "rejected"
                THEN /\ sOut' = current
                     /\ spc' = "done"
                     /\ sSeen' = [ sSeen EXCEPT !["block"] = resp ]
                     /\ UNCHANGED <<sNet, sBn>>
                ELSE /\ sBn' = Num(bn)
                     /\ sNet' = sNet \o [ i \in 1..Len(qs) |->
                                   Query(qs[i], Num(bn),
                                         IF qs[i] = "base" THEN NoNumber ELSE Num(sArgs.first)) ]
                     /\ sSeen' = [ q \in Queries \cup { "ohlc" } |->
                                   IF q = "block" THEN resp
                                   ELSE IF q \in Range(qs) THEN Awaiting ELSE sSeen[q] ]
                     /\ spc' = "parallel"
                     /\ sOut' = sOut
    /\ UNCHANGED <<sProto, sArgs, sEnv>>

\* the adapter's result once every query it needs has resolved
Finish(seen, tokens) ==
    Snapshot(sBn[1], sArgs.secondsAgo, tokens,
             poolsData(QueryOutcome(sProto, "pools", seen["pools"]).value))

\* one of the parallel queries is answered.  A rejection rejects Promise.all and the
\* call; the last fulfilment lets the adapter go on: QuickSwap calls the derivedMatic
\* tokens query, the others build the snapshot
ParallelResponds(q) ==
    /\ spc = "parallel"
    /\ sSeen[q] = Awaiting
    /\ \E resp \in AnswersFor(sProto, q) :
         LET seen == [ sSeen EXCEPT ![q] = resp ]
         IN  IF QueryOutcome(sProto, q, resp).status = "rejected"
             THEN /\ sSeen' = seen
                  /\ sOut' = QueryOutcome(sProto, q, resp)
                  /\ spc' = "done"
                  /\ sNet' = sNet
             ELSE IF \E r \in Queries : seen[r] = Awaiting
             THEN /\ sSeen' = seen
                  /\ UNCHANGED <<sOut, spc, sNet>>
             ELSE IF sProto = "quick"
             THEN /\ sSeen' = [ seen EXCEPT !["tokens"] = Awaiting ]
                  /\ sNet' = Append(sNet, Query("tokens", sBn, Num(sArgs.first)))
                  /\ spc' = "tokens"
                  /\ sOut' = sOut
             ELSE /\ sSeen' = seen
                  /\ sOut' = Finish(seen, tokenPrices(QueryOutcome(sProto, "tokens", seen["tokens"]).value,
                                                      QueryOutcome(sProto, "base", seen["base"]).value))
                  /\ spc' = "done"
                  /\ sNet' = sNet
    /\ UNCHANGED <<sProto, sArgs, sEnv, sBn>>

\* quickswapV3.ts lines 88-97: the derivedMatic query is answered; when it failed the
\* catch block calls the derivedUSD query
TokensResponds ==
    /\ spc = "tokens"
    /\ \E resp \in AnswersFor(sProto, "tokens") :
         LET seen == [ sSeen EXCEPT !["tokens"] = resp ]
             rows == topTokensDerived("derivedMatic", resp)
         IN  IF rows.status = "rejected"
             THEN /\ sSeen' = [ seen EXCEPT !["tokensUSD"] = Awaiting ]
                  /\ sNet' = Append(sNet, Query("tokensUSD", sBn, Num(sArgs.first)))
                  /\ spc' = "fallback"
                  /\ sOut' = sOut
             ELSE /\ sSeen' = seen
                  /\ sOut' = Finish(seen, Fulfil(tokensFromDerivedMatic(rows.value, QueryOutcome(sProto, "base", seen["base"]).value)))
                  /\ spc' = "done"
                  /\ sNet' = sNet
    /\ UNCHANGED <<sProto, sArgs, sEnv, sBn>>

\* quickswapV3.ts lines 97-103: the derivedUSD query is answered
FallbackResponds ==
    /\ spc = "fallback"
    /\ \E resp \in AnswersFor(sProto, "tokensUSD") :
         LET seen == [ sSeen EXCEPT !["tokensUSD"] = resp ]
             rows == topTokensDerived("derivedUSD", resp)
         IN  /\ sSeen' = seen
             /\ sOut' = IF rows.status = "rejected" THEN rows
                        ELSE Finish(seen, Fulfil(tokensFromDerivedUSD(rows.value, QueryOutcome(sProto, "base", seen["base"]).value)))
    /\ spc' = "done"
    /\ UNCHANGED <<sProto, sArgs, sEnv, sBn, sNet>>

\* tokenApi.ts line 7: the Authorization header; a variable that is not set is
\* interpolated as "undefined"
Authorization(env) ==
    IF env.TOKEN_API_JWT = "" THEN "Bearer undefined" ELSE "Bearer " \o env.TOKEN_API_JWT

\* tokenApi.ts lines 10-12, on the response
tokenApiGet(resp) ==
    IF resp = NetworkError THEN Reject(Error("fetch failed"))
    ELSE IF ~resp.isJson THEN Reject(Error("SyntaxError"))
    ELSE IF ~resp.ok
    THEN Reject(Error(IF resp.body # Null /\ "error" \in DOMAIN resp.body THEN resp.body.error
                      ELSE IF resp.body # Null /\ "message" \in DOMAIN resp.body THEN resp.body.message
                      ELSE "HTTP status"))
    ELSE Fulfil(resp.body)

\* tokenApi.ts lines 4-9: the request goes out with the header
CallTokenApi ==
    /\ spc = "idle" /\ sProto = "tokenApi"
    /\ sNet' = << [ query |-> "ohlc", authorization |-> Authorization(sEnv) ] >>
    /\ sSeen' = [ sSeen EXCEPT !["ohlc"] = Awaiting ]
    /\ spc' = "tokenApi"
    /\ UNCHANGED <<sProto, sArgs, sEnv, sBn, sOut>>

\* tokenApi.ts lines 10-12
TokenApiResponds ==
    /\ spc = "tokenApi"
    /\ \E resp \in AnswersFor(sProto, "ohlc") :
         /\ sSeen' = [ sSeen EXCEPT !["ohlc"] = resp ]
         /\ sOut' = tokenApiGet(resp)
    /\ spc' = "done"
    /\ UNCHANGED <<sProto, sArgs, sEnv, sBn, sNet>>

----------------------------------------------------------------------------
(* The protocol routes app/api/graph/uni/route.ts, sushi/route.ts and the     *)
(* QuickSwap route (src/unnamed/part_004): one module-level cache slot, GET   *)
(* requests that may overlap, and a clock.  A request reads the cache when it *)
(* arrives and, on a miss, awaits the adapter; the adapter settles in a later *)
(* step.                                                                      *)

FreshMs == 60000

MaxRequests == 2
MaxTicks == 3

\* lines 11-13: Number(param ?? '0'), Number(param ?? '300') and the key
\* `uni:${secondsAgo}:${first}`.  A number's decimal form names the number, so the
\* key is kept as the protocol and the two numbers.  A parameter that is absent is null.
CacheKey(proto, secondsAgo, first) ==
    [ protocol   |-> proto,
      secondsAgo |-> ToNumber(IF secondsAgo = Null THEN JStr(<<"0">>) ELSE secondsAgo),
      first      |-> ToNumber(IF first = Null THEN JStr(<<"3","0","0">>) ELSE first) ]

\* line 14 with the window's end included
CacheHitInclusive(cache, key, now) == cache # Null /\ cache.key = key /\ now - cache.at =< FreshMs

\* line 14 without the comparison of the keys
CacheHitAnyKey(cache, key, now) == cache # Null /\ now - cache.at < FreshMs

\* line 14: cache && cache.key === key && Date.now() - cache.at < 60_000
CacheHit(cache, key, now) == cache # Null /\ cache.key = key /\ now - cache.at < FreshMs

RouteInit ==
    /\ rProto \in { "uni", "sushi", "quick" }
    /\ rNow = 0
    /\ rTicks = 0
    /\ rCache = Null
    /\ rReq = [ i \in 1..MaxRequests |-> [ pc |-> "new", key |-> Undefined, res |-> Pending ] ]
    /\ rFetches = <<>>

\* lines 8-17: request i arrives, with its parameters.  On a hit it is answered from the
\* cache; else it calls the adapter and waits
Get(i) ==
    /\ rReq[i].pc = "new"
    /\ i > 1 => rReq[i - 1].pc # "new"
    /\ \E params \in { << Null, Null >>, << JStr(<<"0">>), JStr(<<"3","0","0">>) >>,
                       << JStr(<<"6","0">>), Null >>, << Null, JStr(<<"5">>) >>,
                       << JStr(<<"x">>), Null >> } :
         LET key == CacheKey(rProto, params[1], params[2])
         IN  IF CacheHit(rCache, key, rNow)
             THEN /\ rReq' = [ rReq EXCEPT ![i] =
                                 [ pc |-> "done", key |-> key,
                                   res |-> [ status |-> 200, body |-> rCache.data ] ] ]
                  /\ rFetches' = rFetches
             ELSE /\ rReq' = [ rReq EXCEPT ![i] = [ pc |-> "awaiting", key |-> key, res |-> Pending ] ]
                  /\ rFetches' = Append(rFetches, i)
    /\ UNCHANGED <<rProto, rNow, rTicks, rCache>>

\* AdapterSettles with the slot emptied when the adapter fails
AdapterSettlesClearing(i) ==
    /\ rReq[i].pc = "awaiting"
    /\ \E outcome \in { Snapshot(bn, rReq[i].key.secondsAgo, Fulfil(<<>>), Fulfil(<<>>)) : bn \in { 1000, 1007 } }
                        \cup { Reject(Error("fetch failed")) } :
         IF outcome.status = "fulfilled"
         THEN /\ rCache' = [ key |-> rReq[i].key, at |-> rNow, data |-> outcome.value ]
              /\ rReq' = [ rReq EXCEPT ![i].pc = "done",
                                       ![i].res = [ status |-> 200, body |-> outcome.value ] ]
         ELSE /\ rCache' = Null
              /\ rReq' = [ rReq EXCEPT ![i].pc = "done",
                                       ![i].res = [ status |-> 500,
                                                    body |-> [ error |-> outcome.reason.message ] ] ]
    /\ UNCHANGED <<rProto, rNow, rTicks, rFetches>>

\* lines 17-23: the adapter call of request i settles.  A snapshot is stored with the
\* time of that moment and returned; an error is answered with status 500
AdapterSettles(i) ==
    /\ rReq[i].pc = "awaiting"
    /\ \E outcome \in { Snapshot(bn, rReq[i].key.secondsAgo, Fulfil(<<>>), Fulfil(<<>>)) : bn \in { 1000, 1007 } }
                        \cup { Reject(Error("fetch failed")) } :
         IF outcome.status = "fulfilled"
         THEN /\ rCache' = [ key |-> rReq[i].key, at |-> rNow, data |-> outcome.value ]
              /\ rReq' = [ rReq EXCEPT ![i].pc = "done",
                                       ![i].res = [ status |-> 200, body |-> outcome.value ] ]
         ELSE /\ rCache' = rCache
              /\ rReq' = [ rReq EXCEPT ![i].pc = "done",
                                       ![i].res = [ status |-> 500,
                                                    body |-> [ error |-> outcome.reason.message ] ] ]
    /\ UNCHANGED <<rProto, rNow, rTicks, rFetches>>

\* time passes: a millisecond, or a millisecond less than the window
Tick ==
    /\ rTicks < MaxTicks
    /\ \E d \in { 1, FreshMs - 1 } : rNow' = rNow + d
    /\ rTicks' = rTicks + 1
    /\ UNCHANGED <<rProto, rCache, rReq, rFetches>>

----------------------------------------------------------------------------
(* normalizeSymbol, types/market.ts.  A call returns a string or throws; the  *)
(* result is [returns |-> characters] or [throws |-> the error's name].      *)

\* line 37: the {40} of the address pattern
AddressDigits == 40

\* lines 14-31: the name -> ticker table
MAP ==
    <<"e","t","h","e","r","e","u","m">> :> <<"E","T","H">>
    @@ <<"e","t","h","e","r">> :> <<"E","T","H">>
    @@ <<"b","i","t","c","o","i","n">> :> <<"B","T","C">>
    @@ <<"s","o","l","a","n","a">> :> <<"S","O","L">>
    @@ <<"p","o","l","y","g","o","n">> :> <<"M","A","T","I","C">>
    @@ <<"b","n","b">> :> <<"B","N","B">>
    @@ <<"r","i","p","p","l","e">> :> <<"X","R","P">>
    @@ <<"c","a","r","d","a","n","o">> :> <<"A","D","A">>
    @@ <<"d","o","g","e","c","o","i","n">> :> <<"D","O","G","E">>
    @@ <<"l","i","t","e","c","o","i","n">> :> <<"L","T","C">>
    @@ <<"c","h","a","i","n","l","i","n","k">> :> <<"L","I","N","K">>
    @@ <<"u","n","i","s","w","a","p">> :> <<"U","N","I">>
    @@ <<"a","a","v","e">> :> <<"A","A","V","E">>
    @@ <<"p","a","n","c","a","k","e","s","w","a","p">> :> <<"C","A","K","E">>
    @@ <<"s","u","s","h","i">> :> <<"S","U","S","H","I">>

\* MAP[s], a property read of the object literal of line 14: the table's own entry,
\* else the member of that name the literal inherits from Object.prototype (a
\* function or an object, not a string), else undefined
MapEntry(s) ==
    LET ObjectPrototype ==
            { <<"c","o","n","s","t","r","u","c","t","o","r">>,
              <<"_","_","p","r","o","t","o","_","_">>,
              <<"h","a","s","O","w","n","P","r","o","p","e","r","t","y">>,
              <<"i","s","P","r","o","t","o","t","y","p","e","O","f">>,
              <<"p","r","o","p","e","r","t","y","I","s","E","n","u","m","e","r","a","b","l","e">>,
              <<"t","o","L","o","c","a","l","e","S","t","r","i","n","g">>,
              <<"t","o","S","t","r","i","n","g">>,
              <<"v","a","l","u","e","O","f">>,
              <<"_","_","d","e","f","i","n","e","G","e","t","t","e","r","_","_">>,
              <<"_","_","d","e","f","i","n","e","S","e","t","t","e","r","_","_">>,
              <<"_","_","l","o","o","k","u","p","G","e","t","t","e","r","_","_">>,
              <<"_","_","l","o","o","k","u","p","S","e","t","t","e","r","_","_">> }
    IN  IF s \in DOMAIN MAP THEN JStr(MAP[s])
        ELSE IF s \in ObjectPrototype THEN [ object |-> s ]
        ELSE Undefined

\* line 37: /^0x[a-f0-9]{40}$/i.test(s); under the i flag the x and the hex letters
\* match in either case
IsAddress(s) ==
    LET Hex == { "0","1","2","3","4","5","6","7","8","9",
                 "a","b","c","d","e","f","A","B","C","D","E","F" }
    IN  /\ Len(s) = 2 + AddressDigits
        /\ s[1] = "0"
        /\ s[2] \in { "x", "X" }
        /\ \A i \in 3..Len(s) : s[i] \in Hex

\* line 39: /^[a-z]{2,8}$/i.test(s)
IsTicker(s) ==
    /\ Len(s) \in 2..8
    /\ \A i \in 1..Len(s) : s[i] \in Range(LowerCase) \cup Range(UpperCase)


\* lines 33-41.  !input holds of the empty string only; `MAP[s] ?? s` is s when the
\* read gives undefined; .toUpperCase() of a value that is not a string is a
\* TypeError (the value has no such method)
normalizeSymbol(input) ==
    LET s == ToLowerCase(Trim(input))
        entry == MapEntry(s)
        named == IF IsNullish(entry) THEN JStr(s) ELSE entry
    IN  IF input = <<>> THEN [ returns |-> <<>> ]
        ELSE IF IsAddress(s) THEN [ returns |-> s ]
        ELSE IF IsTicker(s) /\ entry = Undefined THEN [ returns |-> ToUpperCase(s) ]
        ELSE IF "str" \in DOMAIN named THEN [ returns |-> ToUpperCase(named.str) ]
        ELSE [ throws |-> "TypeError" ]

NotCalled == [ notCalled |-> TRUE ]

\* the characters of pattern, repeated to length n
Cycle(pattern, n) == [ i \in 1..n |-> pattern[((i - 1) % Len(pattern)) + 1] ]

\* the inputs: names of the table, tickers, addresses and near-addresses, names of
\* Object.prototype members, each as written, in upper case and in lower case, bare
\* or with white space around it
SymInit ==
    /\ nOut = NotCalled
    /\ \E core \in { <<>>, <<"e","t","h","e","r","e","u","m">>, <<"d","o","g","e","c","o","i","n">>, <<"s","u","s","h","i">>, <<"d","o","g","e">>, <<"b","t","c">>, <<"a">>, <<"a","b","c","d","e","f","g","h","i">>, <<"e","t","h","1">>, <<"c","o","n","s","t","r","u","c","t","o","r">>, <<"_","_","p","r","o","t","o","_","_">>, <<"t","o","S","t","r","i","n","g">>,
                     <<"0","x">> \o Cycle(<<"a","B","3">>, AddressDigits),
                     <<"0","x">> \o Cycle(<<"0","f","7","c">>, AddressDigits),
                     <<"0","x">> \o Cycle(<<"a","B","3">>, AddressDigits - 1),
                     <<"0","x">> \o Cycle(<<"a","g","3">>, AddressDigits) } :
       \E form \in { "as written", "upper", "lower" } :
       \E left \in { <<>>, <<" ">> } :
       \E right \in { <<>>, <<"\t">> } :
           nInput = left \o (CASE form = "as written" -> core
                               [] form = "upper" -> ToUpperCase(core)
                               [] form = "lower" -> ToLowerCase(core)) \o right

CallNormalize ==
    /\ nOut = NotCalled
    /\ nOut' = normalizeSymbol(nInput)
    /\ UNCHANGED nInput

----------------------------------------------------------------------------
(* genMock, lib/token/mock.ts.  The generator's numbers are JavaScript        *)
(* doubles; here the seed is the exact 32-bit integer, held as two 16-bit     *)
(* halves, rand() is the seed's upper half over 2^16, prices and drift are    *)
(* whole hundred-thousandths, vol is whole ten-thousandths, and a field       *)
(* rounded by toFixed(4) is a whole number of ten-thousandths.               *)

MaxDays == 1
MaxMockTicks == 2

\* num / den, rounded to the nearest whole number
Round(num, den) == (num + den \div 2) \div den

\* lines 6-11
StepOfHourly(interval) == 3600

StepOf(interval) ==
    CASE interval = "1m"  -> 60
      [] interval = "5m"  -> 300
      [] interval = "15m" -> 900
      [] interval = "4h"  -> 14400
      [] interval = "1d"  -> 86400
      [] OTHER            -> 3600

\* c.charCodeAt(0) of a letter or digit
CharCode(c) ==
    LET Digits == << "0","1","2","3","4","5","6","7","8","9" >>
        At(cs) == CHOOSE i \in 1..Len(cs) : cs[i] = c
    IN  CASE c \in Range(UpperCase) -> 64 + At(UpperCase)
          [] c \in Range(LowerCase) -> 96 + At(LowerCase)
          [] c \in Range(Digits)    -> 47 + At(Digits)

\* line 14: Array.from(symbol).reduce((a, c) => a + c.charCodeAt(0), 100)
RECURSIVE CharCodeSum(_, _)
CharCodeSum(symbol, a) ==
    IF symbol = <<>> THEN a ELSE CharCodeSum(Tail(symbol), a + CharCode(Head(symbol)))

SeedOfFirst(symbol) == CharCodeSum(SubSeq(symbol, 1, 1), 100)

SeedOf(symbol) == CharCodeSum(symbol, 100)

\* line 15: seed = (seed * 1664525 + 1013904223) % 2 ** 32, on the halves
\* seed = hi * 2^16 + lo, with 1664525 = 25 * 2^16 + 26125 and
\* 1013904223 = 15470 * 2^16 + 62303
NextSeed(seed) ==
    LET low == seed.lo * 26125 + 62303
    IN  [ hi |-> (seed.hi * 26125 + seed.lo * 25 + 15470 + low \div 65536) % 65536,
          lo |-> low % 65536 ]

\* +x.toFixed(4), of x in hundred-thousandths: the nearest ten-thousandth
ToFixed4(x) == Round(x, 10)

\* lines 20-36, one pass of the loop: two draws of rand(), the candle pushed
LoopBody(i, st, now, step) ==
    LET s1 == NextSeed(st.seed)
        s2 == NextSeed(s1)
        t == now - i * step
        drift == Round((s1.hi - 32768) * 1875, 2048)
        vol == 8000 + Round(s2.hi * 1875, 20480)
        abs == IF drift < 0 THEN 0 - drift ELSE drift
        o == st.price
        h == o + Round(abs * vol, 10000)
        l == o - Round(abs * vol, 10000)
        c == o + drift
    IN  [ seed |-> s2,
          price |-> IF c < 10 THEN 10 ELSE c,
          out |-> Append(st.out, [ time |-> t, open |-> ToFixed4(o), high |-> ToFixed4(h),
                                   low |-> ToFixed4(l), close |-> ToFixed4(c) ]) ]

\* line 19: for (let i = n; i >= 1; i--), the passes from i = from down to i = to,
\* the upper half of the range before the lower half.  (The test on upper.price
\* always holds, line 28 keeps the price positive; it makes the upper half's result
\* a value before the lower half is entered.)
RECURSIVE Loop(_, _, _, _, _)
Loop(from, to, st, now, step) ==
    IF from < to THEN st
    ELSE IF from = to THEN LoopBody(from, st, now, step)
    ELSE LET mid == (from + to) \div 2
             upper == Loop(from, mid + 1, st, now, step)
         IN  IF upper.price > 0 THEN Loop(mid, to, upper, now, step) ELSE upper

\* lines 4-39; dateNow is what Date.now() gives at the call
genMock(symbol, days, interval, dateNow) ==
    LET now == dateNow \div 1000
        step == StepOf(interval)
        whole == (days * 86400) \div step
        n == IF whole > 1000 THEN 1000 ELSE whole
        first == NextSeed([ hi |-> 0, lo |-> SeedOf(symbol) ])
        price == 10000000 + Round((first.hi - 32768) * 15625, 2048)
    IN  Loop(n, 1, [ seed |-> first, price |-> price, out |-> <<>> ], now, step).out

\* a call of genMock: its symbol, the clock when it was made, what it returned
MockCall(symbol) ==
    [ symbol |-> symbol, at |-> gClock,
      out |-> genMock(symbol, gArgs.days, gArgs.interval, gClock) ]

MockInit ==
    /\ \E days \in 0..MaxDays :
       \E interval \in { "1m", "5m", "15m", "1h", "4h", "1d", "1w" } :
           gArgs = [ days |-> days, interval |-> interval ]
    /\ gClock = 2000000000
    /\ gTicks = 0
    /\ gPrev = NotCalled
    /\ gLast = NotCalled

CallGenMock ==
    /\ \E symbol \in { <<"B","T","C">>, <<"A","C">>, <<"B","B">> } :
           gLast' = MockCall(symbol)
    /\ gPrev' = gLast
    /\ UNCHANGED <<gArgs, gClock, gTicks>>

\* the clock advances by half a second
MockTick ==
    /\ gTicks < MaxMockTicks
    /\ gClock' = gClock + 500
    /\ gTicks' = gTicks + 1
    /\ UNCHANGED <<gArgs, gPrev, gLast>>

----------------------------------------------------------------------------
(* The assistant chat pages AIAnalysisPage and AssistantPage (both in         *)
(* src/packages/nextjs/app/api/history/route.ts).  A send runs to its await   *)
(* in one step and the reply arrives in a later step; React has rendered      *)
(* between two events, so a handler reads the current state.  The text of an  *)
(* AI message is kept as what it stands for: the placeholder, the reply to    *)
(* the k-th request or the error of the k-th request.                         *)

MaxSends == 2

Placeholder == [ placeholder |-> TRUE ]

\* lines 107-109 and 272: the initial msgs
InitialMsgs(page) ==
    IF page = "AIAnalysisPage" THEN << [ role |-> "ai", text |-> [ welcome |-> TRUE ] ] >>
    ELSE <<>>

\* m.slice(0, -1)
DropLast(m) == SubSeq(m, 1, Len(m) - 1)

ChatInit ==
    /\ chPage \in { "AIAnalysisPage", "AssistantPage" }
    /\ chMsgs = InitialMsgs(chPage)
    /\ chInput = <<>>
    /\ chSending = FALSE
    /\ chReq = <<>>

\* lines 218, 241 and 308: setInput
SetInput ==
    /\ Len(chReq) < MaxSends
    /\ \E value \in { <<>>, <<" ">>, <<"a">>, <<" ","b"," ">> } :
           chInput' = value /\ chInput' # chInput
    /\ UNCHANGED <<chPage, chMsgs, chSending, chReq>>

\* lines 116-123 and 275-282: send, up to the await of the request.  AIAnalysisPage
\* returns at once while sending is set
Send ==
    LET text == Trim(chInput)
    IN  /\ Len(chReq) < MaxSends
        /\ text # <<>>
        /\ chPage = "AIAnalysisPage" => ~chSending
        /\ chInput' = <<>>
        /\ chMsgs' = chMsgs \o << [ role |-> "user", text |-> JStr(text) ],
                                  [ role |-> "ai", text |-> Placeholder ] >>
        /\ chSending' = (chPage = "AIAnalysisPage")
        /\ chReq' = Append(chReq, [ text |-> text, settled |-> FALSE ])
        /\ UNCHANGED chPage

\* lines 123-129 and 287-291: the k-th request settles, with a reply or with an error;
\* the last element of msgs is replaced by the AI message
ReplyArrives(k) ==
    /\ k \in 1..Len(chReq)
    /\ ~chReq[k].settled
    /\ \E text \in { [ replyTo |-> k ], [ errorOf |-> k ] } :
           chMsgs' = DropLast(chMsgs) \o << [ role |-> "ai", text |-> text ] >>
    /\ chSending' = FALSE
    /\ chReq' = [ chReq EXCEPT ![k].settled = TRUE ]
    /\ UNCHANGED <<chPage, chInput>>

----------------------------------------------------------------------------
(* Specifications, one per component; the other components stay idle *)

AggIdle ==
    /\ enabled = [ p \in ProtocolSet |-> FALSE ]
    /\ swrData = [ p \in ProtocolSet |-> Undefined ]
    /\ swrErr = [ p \in ProtocolSet |-> Undefined ]
    /\ swrLoading = [ p \in ProtocolSet |-> FALSE ]
    /\ AggMounted

HistParked ==
    /\ useMock = FALSE
    /\ upstream = [ s \in Sources |-> [ status |-> "rejected", reason |-> s ] ]
    /\ HistIdle

MergeParked ==
    /\ histories = <<>>
    /\ MergeIdle

CandlesParked ==
    /\ cOp = "getCandles"
    /\ cSymbol = <<>>
    /\ cpc = "idle"
    /\ cNet = <<>>
    /\ cSeen = [ e \in { "klines", "search", "chart", "ohlc" } |-> Unasked ]
    /\ cSettled = [ a \in { "fetchCandlesBinance", "fetchCandlesCoingecko",
                             "fromBinance", "fromCoinGecko" } |-> Pending ]
    /\ cOut = Pending

RouteParked == RouteInit /\ rProto = "uni"

SymParked ==
    /\ nInput = <<>>
    /\ nOut = NotCalled

MockParked ==
    /\ gArgs = [ days |-> 0, interval |-> "1h" ]
    /\ gClock = 0
    /\ gTicks = 0
    /\ gPrev = NotCalled
    /\ gLast = NotCalled

ChatParked == ChatInit /\ chPage = "AssistantPage"

SnapParked ==
    /\ sProto = "uni"
    /\ sArgs = [ secondsAgo |-> 0, first |-> 300 ]
    /\ sEnv = [ THEGRAPH_API_KEY |-> "", ABI_KEY |-> "", TOKEN_API_JWT |-> "" ]
    /\ spc = "idle"
    /\ sNet = <<>>
    /\ sSeen = [ q \in Queries \cup { "ohlc" } |-> Unasked ]
    /\ sBn = NoNumber
    /\ sOut = Pending

InitMerge == MergeInit /\ AggIdle /\ HistParked /\ CandlesParked /\ SnapParked /\ RouteParked /\ SymParked /\ MockParked /\ ChatParked

NextMerge == CallMerge /\ UNCHANGED <<aggVars, histVars, candleVars, snapVars, routeVars, symVars, mockVars, chatVars>>

SpecMerge == InitMerge /\ [][NextMerge]_vars

InitAgg == AggInit /\ MergeParked /\ HistParked /\ CandlesParked /\ SnapParked /\ RouteParked /\ SymParked /\ MockParked /\ ChatParked

NextAgg == RenderHook /\ UNCHANGED <<mergeVars, histVars, candleVars, snapVars, routeVars, symVars, mockVars, chatVars>>

SpecAgg == InitAgg /\ [][NextAgg]_vars

InitHist == HistInit /\ MergeParked /\ AggIdle /\ CandlesParked /\ SnapParked /\ RouteParked /\ SymParked /\ MockParked /\ ChatParked

NextHist ==
    /\ \/ FetchMock
       \/ FetchBoth
       \/ \E s \in Sources : SettleSource(s)
       \/ ReturnMerged
    /\ UNCHANGED <<mergeVars, aggVars, candleVars, snapVars, routeVars, symVars, mockVars, chatVars>>

SpecHist == InitHist /\ [][NextHist]_vars

InitCandles == CandlesInit /\ MergeParked /\ AggIdle /\ HistParked /\ SnapParked /\ RouteParked /\ SymParked /\ MockParked /\ ChatParked

NextCandles ==
    /\ \/ GetCandles
       \/ BinanceResponds
       \/ SearchResponds
       \/ ChartResponds
       \/ FromBinance
       \/ KlinesResponds
       \/ FromCoinGecko
       \/ OhlcResponds
    /\ UNCHANGED <<mergeVars, aggVars, histVars, snapVars, routeVars, symVars, mockVars, chatVars>>

SpecCandles == InitCandles /\ [][NextCandles]_vars

InitSnap == SnapInit /\ MergeParked /\ AggIdle /\ HistParked /\ CandlesParked /\ RouteParked /\ SymParked /\ MockParked /\ ChatParked

NextSnap ==
    /\ \/ CallSnapshot
       \/ BlockResponds
       \/ \E q \in Queries : ParallelResponds(q)
       \/ TokensResponds
       \/ FallbackResponds
       \/ CallTokenApi
       \/ TokenApiResponds
    /\ UNCHANGED <<mergeVars, aggVars, histVars, candleVars, routeVars, symVars, mockVars, chatVars>>

SpecSnap == InitSnap /\ [][NextSnap]_vars

InitRoute == RouteInit /\ MergeParked /\ AggIdle /\ HistParked /\ CandlesParked /\ SnapParked /\ SymParked /\ MockParked /\ ChatParked

NextRoute ==
    /\ \/ \E i \in 1..MaxRequests : Get(i)
       \/ \E i \in 1..MaxRequests : AdapterSettles(i)
       \/ Tick
    /\ UNCHANGED <<mergeVars, aggVars, histVars, candleVars, snapVars, symVars, mockVars, chatVars>>

SpecRoute == InitRoute /\ [][NextRoute]_vars

InitSym == SymInit /\ MergeParked /\ AggIdle /\ HistParked /\ CandlesParked /\ SnapParked /\ RouteParked /\ MockParked /\ ChatParked

NextSym == CallNormalize /\ UNCHANGED <<mergeVars, aggVars, histVars, candleVars, snapVars, routeVars, mockVars, chatVars>>

SpecSym == InitSym /\ [][NextSym]_vars

InitMock == MockInit /\ MergeParked /\ AggIdle /\ HistParked /\ CandlesParked /\ SnapParked /\ RouteParked /\ SymParked /\ ChatParked

NextMock ==
    /\ \/ CallGenMock
       \/ MockTick
    /\ UNCHANGED <<mergeVars, aggVars, histVars, candleVars, snapVars, routeVars, symVars, chatVars>>

SpecMock == InitMock /\ [][NextMock]_vars

InitChat == ChatInit /\ MergeParked /\ AggIdle /\ HistParked /\ CandlesParked /\ SnapParked /\ RouteParked /\ SymParked /\ MockParked

NextChat ==
    /\ \/ SetInput
       \/ Send
       \/ \E k \in 1..MaxSends : ReplyArrives(k)
    /\ UNCHANGED <<mergeVars, aggVars, histVars, candleVars, snapVars, routeVars, symVars, mockVars>>

SpecChat == InitChat /\ [][NextChat]_vars

----------------------------------------------------------------------------
(* Properties of mergeHistories *)

\* the input candles in visiting order, and those that carry timestamp ts
Given == Flat(histories)
GivenAt(ts) == LET At(c) == c.time = ts IN SelectSeq(Given, At)

\* a candle's time, open, high, low and close
Ohlc(c) ==
    [ time |-> c.time, open |-> c.open, high |-> c.high, low |-> c.low, close |-> c.close ]

Ascending(h) == \A i, j \in 1..Len(h) : i < j => h[i].time < h[j].time

\* two histories, no timestamp twice among all their candles
TwoDisjoint ==
    /\ Len(histories) = 2
    /\ \A i, j \in 1..Len(Given) : i # j => Given[i].time # Given[j].time

\* C1 as stated: for two histories with disjoint, unique timestamps the output is
\* their concatenation sorted ascending by time, every output candle being the
\* input candle of that timestamp, field for field.
C1_AsStated ==
    (mpc = "returned" /\ TwoDisjoint) =>
        /\ Len(merged) = Len(Given)
        /\ Ascending(merged)
        /\ Range(merged) = Range(Given)

\* C1 amended: for two histories with disjoint, unique timestamps the output is
\* their concatenation sorted ascending by time, every output candle carrying the
\* time, open, high, low and close of the input candle of that timestamp and no
\* other field (an input candle's volume is not carried over).
C1_DisjointMerge ==
    (mpc = "returned" /\ TwoDisjoint) =>
        /\ Len(merged) = Len(Given)
        /\ Ascending(merged)
        /\ Range(merged) = { Ohlc(c) : c \in Range(Given) }

\* C1 witness: two non-empty disjoint histories given newest first, one with volume
C1_Witness ==
    /\ mpc = "returned"
    /\ TwoDisjoint
    /\ Len(histories[1]) = 1 /\ Len(histories[2]) = 1
    /\ histories[1][1].time > histories[2][1].time
    /\ "volume" \in DOMAIN histories[2][1]
    /\ Len(merged) = 2

\* m stands at 0-based index k of the ascending order of the numbers xs
AtRank(m, xs, k) ==
    /\ \E i \in 1..Len(xs) : xs[i] = m
    /\ Cardinality({ i \in 1..Len(xs) : xs[i] < m }) =< k
    /\ Cardinality({ i \in 1..Len(xs) : xs[i] =< m }) > k

ClosesAt(ts) == LET g == GivenAt(ts) IN [ i \in 1..Len(g) |-> g[i].close ]

\* C2 as stated: the emitted close of a bucket is the median of its closes in
\* ascending numeric order, the lower-middle element when the bucket holds an even
\* number of candles.
C2_AsStated ==
    mpc = "returned" =>
        \A i \in 1..Len(merged) :
            LET xs == ClosesAt(merged[i].time)
            IN  AtRank(merged[i].close, xs, (Len(xs) - 1) \div 2)

\* C2 amended: the emitted close of a bucket is the element at index
\* floor(n / 2) of its n closes in ascending numeric order: the middle element for
\* odd n and the upper-middle element for even n (closes 11 and 10.5 give 11).
C2_MedianClose ==
    mpc = "returned" =>
        \A i \in 1..Len(merged) :
            LET xs == ClosesAt(merged[i].time)
            IN  AtRank(merged[i].close, xs, Len(xs) \div 2)

\* C2 witness: a bucket of the spec's two example candles, closes 22 then 21
\* (11 and 10.5 scaled by two), merged to close 22
C2_Witness ==
    /\ mpc = "returned"
    /\ \E i \in 1..Len(merged) :
          /\ ClosesAt(merged[i].time) = <<22, 21>>
          /\ merged[i].close = 22

\* C3: the emitted high of a bucket is the maximum high, and the emitted low the
\* minimum low, over all input candles of every history that carry its timestamp.
C3_HighLow ==
    mpc = "returned" =>
        \A i \in 1..Len(merged) :
            LET g == Range(GivenAt(merged[i].time))
            IN  /\ \E c \in g : c.high = merged[i].high
                /\ \A c \in g : c.high =< merged[i].high
                /\ \E c \in g : c.low = merged[i].low
                /\ \A c \in g : c.low >= merged[i].low

\* C3 witness: a bucket fed by two histories whose first candle has neither the
\* maximum high nor the minimum low
C3_Witness ==
    /\ mpc = "returned"
    /\ Len(histories) = 2
    /\ \E i \in 1..Len(merged) :
          LET g == GivenAt(merged[i].time)
          IN  /\ Len(g) >= 2
              /\ \E c \in Range(histories[1]) : c.time = merged[i].time
              /\ \E c \in Range(histories[2]) : c.time = merged[i].time
              /\ g[1].high < merged[i].high
              /\ g[1].low > merged[i].low

\* C4: the output is strictly ascending by time and holds exactly one candle per
\* distinct input timestamp, whatever the order and repetition of timestamps in
\* the input; no input candle gives the empty output.
C4_AscendingUnique ==
    mpc = "returned" =>
        /\ Ascending(merged)
        /\ { merged[i].time : i \in 1..Len(merged) } = { c.time : c \in Range(Given) }
        /\ Given = <<>> => merged = <<>>

\* C4 witness: one history that is unsorted and repeats a timestamp
C4_Witness ==
    /\ mpc = "returned"
    /\ \E k \in 1..Len(histories) :
          LET h == histories[k]
          IN  /\ Len(h) = 3
              /\ h[1].time > h[2].time
              /\ h[3].time = h[1].time
    /\ Len(merged) = 2

\* C5: the emitted open of a bucket is the open of the first candle carrying its
\* timestamp in insertion order (histories in list order, candles in sequence
\* order), and the in-bucket sort by time leaves every bucket in insertion order.
C5_FirstOpen ==
    mpc = "returned" =>
        /\ \A i \in 1..Len(merged) : merged[i].open = GivenAt(merged[i].time)[1].open
        /\ LET buckets == Buckets(histories)
           IN  \A b \in 1..Len(buckets) :
                  /\ buckets[b].arr = GivenAt(buckets[b].ts)
                  /\ SortByTime(buckets[b].arr) = buckets[b].arr

\* C5 witness: a bucket fed by two histories whose candles differ in open
C5_Witness ==
    /\ mpc = "returned"
    /\ Len(histories) = 2
    /\ \E i \in 1..Len(merged) :
          /\ \E c \in Range(histories[1]) : c.time = merged[i].time
          /\ \E c \in Range(histories[2]) :
                c.time = merged[i].time /\ c.open # merged[i].open

----------------------------------------------------------------------------
(* Properties of useUnifiedPrices *)

\* Symbols read without the source's toUpperCase and trim: blanks stripped from
\* both ends one at a time, letters folded to lower case.
RECURSIVE Strip(_)
Strip(s) ==
    IF s = <<>> THEN s
    ELSE IF Head(s) \in WhiteSpace THEN Strip(Tail(s))
    ELSE IF s[Len(s)] \in WhiteSpace THEN Strip(SubSeq(s, 1, Len(s) - 1))
    ELSE s

LowerChar(c) ==
    IF \E i \in 1..Len(UpperCase) : UpperCase[i] = c
    THEN LowerCase[CHOOSE i \in 1..Len(UpperCase) : UpperCase[i] = c]
    ELSE c

Canon(sym) == LET t == Strip(sym) IN [ i \in 1..Len(t) |-> LowerChar(t[i]) ]

CanonOf(t) == IF "symbol" \in DOMAIN t THEN Canon(t.symbol) ELSE <<>>

\* the tokens of protocol p's snapshot, none when the snapshot is absent
TokensOf(p) ==
    IF swrData[p] = Undefined \/ "tokens" \notin DOMAIN swrData[p] THEN <<>>
    ELSE swrData[p].tokens

AllTokens == TokensOf("uni") \o TokensOf("sushi") \o TokensOf("quick") \o TokensOf("cake")

\* every priceUSD observed for the symbol class k
Observed(k) ==
    LET Same(t) == CanonOf(t) = k
        ts == SelectSeq(AllTokens, Same)
    IN  [ i \in 1..Len(ts) |-> ts[i].priceUSD ]

SymClasses == { CanonOf(t) : t \in Range(AllTokens) } \ { <<>> }

\* the element at 0-based index k of the ascending order of xs
Ranked(xs, k) == CHOOSE m \in Range(xs) : AtRank(m, xs, k)

\* C6: a row's price is null if and only if the symbol's median (the element at
\* index floor(n/2) of its n observed prices in ascending order) exceeds 1,000,000
\* and the symbol is not on the allow-list; otherwise the price is that median.
\* So an allow-listed symbol keeps its median at any magnitude and a median of
\* exactly 1,000,000 is not suppressed.
C6_Suppression ==
    apc = "rendered" =>
        \A i \in 1..Len(view.rows) :
            LET r  == view.rows[i]
                xs == Observed(Canon(r.symbol))
                m  == Ranked(xs, Len(xs) \div 2)
            IN  /\ r.price = NoNumber <=> (m > 1000000 /\ r.symbol \notin AllowList)
                /\ r.price # NoNumber => r.price = Num(m)

\* C6 witness: one render with an allow-listed symbol above the ceiling that keeps
\* its median (BTC at 2,000,000) and a non-listed symbol at 2,000,000 from its only
\* contributing protocol that is null
C6_Witness ==
    /\ apc = "rendered"
    /\ \E i, j \in 1..Len(view.rows) :
          /\ view.rows[i].symbol = <<"B","T","C">>
          /\ view.rows[i].price = Num(2000000)
          /\ view.rows[j].symbol = <<"X","Y","Z">>
          /\ Observed(<<"x","y","z">>) = <<2000000>>
          /\ view.rows[j].price = NoNumber

\* C6 witness of the boundary: a non-listed symbol whose median is exactly 1,000,000
C6_WitnessCeiling ==
    /\ apc = "rendered"
    /\ \E i \in 1..Len(view.rows) :
          /\ view.rows[i].symbol = <<"X","Y","Z">>
          /\ view.rows[i].price = Num(1000000)

\* C7 as stated: the median of a symbol is taken over the numerically sorted list
\* of all its observed prices, whatever the order the protocols contributed them
\* in, and is the lower-middle element for an even number of values.
C7_AsStated ==
    apc = "rendered" =>
        LET bySymbol == BySymbol(swrData)
        IN  \A i \in 1..Len(bySymbol) :
               LET xs == Observed(Canon(bySymbol[i].symbol))
               IN  Median(bySymbol[i].vals) = Num(Ranked(xs, (Len(xs) - 1) \div 2))

\* C7 amended: the median of a symbol is the element at index floor(n/2) of the
\* numerically sorted list of all n prices observed for it, whatever the order the
\* protocols contributed them in: the middle element for odd n, the upper-middle
\* element for even n.  A row that is not suppressed shows that value.
C7_Median ==
    apc = "rendered" =>
        LET bySymbol == BySymbol(swrData)
        IN  /\ Len(bySymbol) = Len(view.rows)
            /\ \A i \in 1..Len(bySymbol) :
                  LET xs == Observed(Canon(bySymbol[i].symbol))
                      m  == Num(Ranked(xs, Len(xs) \div 2))
                  IN  /\ Median(bySymbol[i].vals) = m
                      /\ view.rows[i].price \in { m, NoNumber }

\* C7 witness: a symbol priced 2,100,000 by an earlier protocol and 2,000,000 by a
\* later one (contributed in descending order) shows 2,100,000
C7_Witness ==
    /\ apc = "rendered"
    /\ Observed(<<"b","t","c">>) = <<2100000, 2000000>>
    /\ \E i \in 1..Len(view.rows) :
          /\ view.rows[i].symbol = <<"B","T","C">>
          /\ view.rows[i].price = Num(2100000)

\* C8: there is exactly one row per distinct symbol after uppercasing and trimming
\* over all tokens of all present snapshots: a blank symbol gives no row, symbols
\* that differ only in case or surrounding blanks share a row, the row's symbol is
\* upper case and trimmed, and a row's byProtocol entry of a protocol is undefined
\* exactly when that protocol's snapshot has no token of the row's symbol.
C8_OneRowPerSymbol ==
    apc = "rendered" =>
        /\ Len(view.rows) = Cardinality(SymClasses)
        /\ { Canon(view.rows[i].symbol) : i \in 1..Len(view.rows) } = SymClasses
        /\ \A i \in 1..Len(view.rows) :
              LET r == view.rows[i]
              IN  /\ r.symbol # <<>>
                  /\ Strip(r.symbol) = r.symbol
                  /\ \A k \in 1..Len(r.symbol) : r.symbol[k] \notin Range(LowerCase)
                  /\ \A p \in ProtocolSet :
                        r.byProtocol[p] = NoNumber <=>
                            ~ \E t \in Range(TokensOf(p)) : CanonOf(t) = Canon(r.symbol)

\* C8 witness: one protocol lists "xyz ", another lists "XYZ": one row, with two
\* byProtocol entries set and two undefined
C8_Witness ==
    /\ apc = "rendered"
    /\ Len(AllTokens) = 2
    /\ Len(view.rows) = 1
    /\ \E p, q \in ProtocolSet :
          /\ p # q
          /\ \E t \in Range(TokensOf(p)) : t.symbol = <<"x","y","z"," ">>
          /\ \E t \in Range(TokensOf(q)) : t.symbol = <<"X","Y","Z">>
          /\ view.rows[1].byProtocol[p] # NoNumber
          /\ view.rows[1].byProtocol[q] # NoNumber
          /\ \A o \in ProtocolSet \ {p, q} : view.rows[1].byProtocol[o] = NoNumber

\* C8 witness of the blank symbol: two tokens, one of them blank, one row
C8_WitnessBlank ==
    /\ apc = "rendered"
    /\ Len(AllTokens) = 2
    /\ \E t \in Range(AllTokens) : t.symbol = <<" ">>
    /\ Len(view.rows) = 1

Absent(p) == swrData[p] = Undefined
Rejected(p) == swrErr[p] # Undefined /\ Absent(p)
Succeeded(p) == swrData[p] # Undefined /\ swrErr[p] = Undefined

\* C9: a protocol whose snapshot is absent (disabled, or its fetch rejected)
\* contributes no byProtocol entry and no pool, and the render still returns rows
\* and pairs built from the present snapshots; with one protocol rejected and the
\* three others succeeded, the rows cover every symbol the three list (so rows is
\* non-empty as soon as they list one) and the error returned is the rejected
\* protocol's error.
C9_AbsentContributesNothing ==
    apc = "rendered" =>
        /\ \A p \in ProtocolSet :
              Absent(p) =>
                  /\ \A i \in 1..Len(view.rows) : view.rows[i].byProtocol[p] = NoNumber
                  /\ \A i \in 1..Len(view.pairs) : view.pairs[i] # PoolOf(p)
        /\ \A p \in ProtocolSet :
              ~Absent(p) => \E i \in 1..Len(view.pairs) : view.pairs[i] = PoolOf(p)
        /\ \A k \in SymClasses :
              \E i \in 1..Len(view.rows) : Canon(view.rows[i].symbol) = k
        /\ \A p \in ProtocolSet :
              (Rejected(p) /\ \A q \in ProtocolSet \ {p} : Succeeded(q)) =>
                  /\ view.error = swrErr[p]
                  /\ view.error # Undefined
                  /\ SymClasses # {} => view.rows # <<>>

\* C9 witness: a protocol other than the first is rejected, the three others
\* succeeded and list tokens, and the render returns rows and the error
C9_Witness ==
    /\ apc = "rendered"
    /\ Rejected("quick")
    /\ \A q \in ProtocolSet \ {"quick"} : Succeeded(q)
    /\ Len(AllTokens) = 2
    /\ Len(view.rows) = 2
    /\ Len(view.pairs) = 3
    /\ view.error = [ message |-> "HTTP 404" ]

----------------------------------------------------------------------------
(* Properties of useCoinHistory *)

\* the histories of the sources whose promise fulfils, CoinGecko first
FulfilledHistories ==
    LET Ok(r) == r.status = "fulfilled"
        rs == SelectSeq(<< upstream["cg"], upstream["bin"] >>, Ok)
    IN  [ i \in 1..Len(rs) |-> rs[i].value ]

\* C10: with useMock false both fetches are started together and settle in either
\* order; a rejected one counts as an empty history: the fetcher never rejects, and
\* it resolves with mergeHistories of the fulfilled sources' histories.
C10_AllSettled ==
    /\ hData.status # "rejected"
    /\ (hpc = "awaiting" => \A s \in Sources : settled[s] \in { Pending, upstream[s] })
    /\ (hpc = "done" /\ ~useMock) =>
          /\ hData.status = "fulfilled"
          /\ hData.value = mergeHistories(FulfilledHistories)

\* C10 witness: CoinGecko rejected, Binance fulfilled with candles, the fetcher
\* resolved with Binance's candles merged
C10_Witness ==
    /\ hpc = "done"
    /\ ~useMock
    /\ settled["cg"].status = "rejected"
    /\ settled["bin"].status = "fulfilled"
    /\ Len(settled["bin"].value) = 2
    /\ hData.status = "fulfilled"
    /\ Len(hData.value) = 2

\* C10 witness of the concurrency: Binance has settled while CoinGecko is pending
C10_WitnessOrder ==
    /\ hpc = "awaiting"
    /\ settled["cg"] = Pending
    /\ settled["bin"] # Pending

----------------------------------------------------------------------------
(* Properties of the candle adapters and of getCandles *)

IsCandles(outcome) == outcome.status = "fulfilled" /\ "arr" \in DOMAIN outcome.value

AskedBy(a) == { i \in 1..Len(cNet) : cNet[i].by = a }

\* C11: getCandles asks Binance first; a non-empty Binance series is returned and
\* CoinGecko is never called; when fetchCandlesBinance throws, yields null or yields no
\* candle, fetchCandlesCoingecko is called and its candles are what is returned; when it
\* fails too the result is the empty series; getCandles never rejects.
C11_BinanceThenCoinGecko ==
    cOp = "getCandles" =>
        /\ cOut.status # "rejected"
        /\ cNet # <<>> => cNet[1] = Request("fetchCandlesBinance", "klines")
        /\ cpc = "done" =>
             LET bin == cSettled["fetchCandlesBinance"]
                 cg  == cSettled["fetchCandlesCoingecko"]
             IN  /\ cOut.status = "fulfilled"
                 /\ IF IsCandles(bin) /\ Len(bin.value.arr) > 0
                    THEN /\ cOut.value = bin.value
                         /\ AskedBy("fetchCandlesCoingecko") = {}
                         /\ cg = Pending
                    ELSE /\ cg # Pending
                         /\ AskedBy("fetchCandlesCoingecko") # {}
                         /\ IF IsCandles(cg)
                            THEN cOut.value = cg.value
                            ELSE cOut.value = [ arr |-> <<>> ]

\* fetchCandlesBinance threw on a null row, fetchCandlesCoingecko delivered three candles
\* and getCandles returned exactly those
C11_Witness ==
    /\ cOp = "getCandles" /\ cpc = "done"
    /\ cSettled["fetchCandlesBinance"].status = "rejected"
    /\ IsCandles(cSettled["fetchCandlesCoingecko"])
    /\ Len(cSettled["fetchCandlesCoingecko"].value.arr) = 3
    /\ cOut = cSettled["fetchCandlesCoingecko"]

\* Binance answered an empty array, CoinGecko was asked and had no id for the symbol
C11_WitnessEmpty ==
    /\ cOp = "getCandles" /\ cpc = "done"
    /\ IsCandles(cSettled["fetchCandlesBinance"])
    /\ cSettled["fetchCandlesBinance"].value.arr = <<>>
    /\ cSettled["fetchCandlesCoingecko"] = [ status |-> "fulfilled", value |-> Null ]
    /\ cOut.value.arr = <<>>

\* the response adapter a worked on, and how many elements a row of it must have
SeenBy(a) ==
    CASE a \in { "fetchCandlesBinance", "fromBinance" } -> cSeen["klines"]
      [] a = "fetchCandlesCoingecko" -> cSeen["chart"]
      [] a = "fromCoinGecko" -> cSeen["ohlc"]

RowWidth(a) ==
    CASE a \in { "fetchCandlesBinance", "fromBinance" } -> 6
      [] a = "fetchCandlesCoingecko" -> 2
      [] a = "fromCoinGecko" -> 5

\* the part of a JSON body that is expected to be the array of rows
RowsOf(a, b) ==
    IF a = "fetchCandlesCoingecko"
    THEN IF b # Null /\ "prices" \in DOMAIN b THEN b.prices ELSE Undefined
    ELSE b

NonSuccess(resp) == resp # NetworkError /\ ~resp.ok

Malformed(a, resp) ==
    /\ resp # NetworkError /\ resp.ok
    /\ \/ ~resp.isJson
       \/ "arr" \notin DOMAIN RowsOf(a, resp.body)
       \/ \E i \in 1..Len(RowsOf(a, resp.body).arr) :
            LET row == RowsOf(a, resp.body).arr[i]
            IN  "arr" \notin DOMAIN row \/ Len(row.arr) < RowWidth(a)

WellFormedEmpty(a, resp) ==
    /\ resp # NetworkError /\ resp.ok /\ resp.isJson
    /\ "arr" \in DOMAIN RowsOf(a, resp.body)
    /\ RowsOf(a, resp.body).arr = <<>>

\* an adapter tells its caller that it failed: its promise rejects, or (the two
\* adapters of lib/history.ts, typed OHLC[] | null) it resolves with null
SignalsFailure(outcome) ==
    outcome.status = "rejected" \/ outcome.value = Null

\* C12: every candle adapter fails when the upstream answers a non-success status or a
\* malformed body (not an array, a row lacking expected elements), and returns the
\* empty sequence, without failing, when the response is well-formed but empty.
C12_AsStated ==
    \A a \in DOMAIN cSettled :
        (cSettled[a] # Pending /\ SeenBy(a) # Unasked) =>
            /\ (NonSuccess(SeenBy(a)) \/ Malformed(a, SeenBy(a))) => SignalsFailure(cSettled[a])
            /\ WellFormedEmpty(a, SeenBy(a)) => cSettled[a] = [ status |-> "fulfilled", value |-> [ arr |-> <<>> ] ]

----------------------------------------------------------------------------
(* Properties of the snapshot adapters *)

Answered(q) == sSeen[q] # Unasked /\ sSeen[q] # Awaiting

\* the positions in the log of the posts of query q
Posted(q) == { i \in 1..Len(sNet) : sNet[i].query = q }

\* a response whose JSON body has an errors member
HasErrors(resp) ==
    /\ resp # NetworkError /\ resp.isJson
    /\ resp.body # Null /\ "errors" \in DOMAIN resp.body

FailedWithErrorsOf(q) ==
    /\ spc = "done"
    /\ sOut = [ status |-> "rejected",
                reason |-> [ message |-> "errors", errors |-> sSeen[q].body.errors ] ]

\* C13 as stated: errors in the answer to the current-block, base-price, tokens or
\* pools query of any of the four adapters fail the whole call with that error.
C13_AsStated ==
    \A q \in { "block", "base", "tokens", "pools" } :
        (Answered(q) /\ HasErrors(sSeen[q])) => FailedWithErrorsOf(q)

\* C13: an answer that carries a GraphQL errors array fails the whole call with that
\* error and no snapshot is returned, for every query of every adapter but one:
\* errors in the answer to QuickSwap's derivedMatic tokens query make the adapter post
\* the derivedUSD tokens query instead, and errors in that one's answer fail the call.
C13_ErrorsAreFatal ==
    \A q \in Queries :
        (Answered(q) /\ HasErrors(sSeen[q])) =>
            IF sProto = "quick" /\ q = "tokens"
            THEN spc \in { "fallback", "done" } /\ Posted("tokensUSD") # {}
            ELSE FailedWithErrorsOf(q)

\* base price and pools had arrived with data when the tokens answer came with data
\* and errors together: the call is rejected, nothing of the data is returned
C13_Witness ==
    /\ sProto = "sushi" /\ spc = "done"
    /\ Answered("base") /\ ~HasErrors(sSeen["base"])
    /\ Answered("pools") /\ ~HasErrors(sSeen["pools"])
    /\ Answered("tokens") /\ HasErrors(sSeen["tokens"]) /\ "data" \in DOMAIN sSeen["tokens"].body
    /\ sOut.status = "rejected"

\* QuickSwap's derivedMatic answer carried errors and the call still returned a snapshot
C13_WitnessRetry ==
    /\ sProto = "quick" /\ spc = "done"
    /\ Answered("tokens") /\ HasErrors(sSeen["tokens"])
    /\ sOut.status = "fulfilled"

\* a tokens query failed: no response, no JSON, errors, or no tokens in the data
QueryFailed(q) ==
    LET r == sSeen[q]
    IN  \/ r = NetworkError
        \/ ~r.isJson
        \/ HasErrors(r)
        \/ r.body = Null \/ "data" \notin DOMAIN r.body
        \/ r.body.data = Null \/ "tokens" \notin DOMAIN r.body.data

RowsOfQuery(q) == sSeen[q].body.data.tokens.arr

\* a token row that is kept: a non-empty symbol and a derived price that is a number > 0
GoodRow(row, field) ==
    /\ "str" \in DOMAIN row.symbol /\ row.symbol.str # <<>>
    /\ row[field] # Null
    /\ ToNumber(row[field]) # NaN
    /\ ToNumber(row[field]).num > 0

GoodRows(rows, field) == { i \in 1..Len(rows) : GoodRow(rows[i], field) }

\* C14: QuickSwap posts the derivedMatic tokens query first; the derivedUSD query is
\* posted only after that one failed, and always then; a snapshot built from the
\* derivedUSD answer prices each token at its derivedUSD, not multiplied by the base
\* price; when the derivedUSD query fails too the call fails.
C14_DerivedMaticFirst ==
    sProto = "quick" =>
        /\ Posted("tokensUSD") # {} =>
             /\ Answered("tokens") /\ QueryFailed("tokens")
             /\ \A i \in Posted("tokens") : \A j \in Posted("tokensUSD") : i < j
        /\ (Answered("tokens") /\ QueryFailed("tokens")) => Posted("tokensUSD") # {}
        /\ (Answered("tokensUSD") /\ QueryFailed("tokensUSD")) =>
             spc = "done" /\ sOut.status = "rejected"
        /\ (Answered("tokensUSD") /\ sOut.status = "fulfilled") =>
             LET out == sOut.value.tokens
                 rows == RowsOfQuery("tokensUSD")
             IN  /\ Len(out) = Cardinality(GoodRows(rows, "derivedUSD"))
                 /\ \A k \in 1..Len(out) :
                      \E i \in GoodRows(rows, "derivedUSD") :
                          /\ out[k].symbol = rows[i].symbol
                          /\ out[k].priceUSD = ToNumber(rows[i].derivedUSD)

\* derivedMatic failed, derivedUSD listed A at 3 while MATIC was at 2: A is priced 3
C14_Witness ==
    /\ sProto = "quick" /\ spc = "done"
    /\ Answered("tokens") /\ QueryFailed("tokens")
    /\ Answered("tokensUSD")
    /\ sOut.status = "fulfilled"
    /\ sSeen["base"].body.data.bundles.arr[1].maticPriceUSD.str = <<"2">>
    /\ sOut.value.tokens = << [ symbol |-> [ str |-> <<"A">> ], priceUSD |-> [ num |-> 3 ] ] >>

\* floor(n / 12), as the k with 12k <= n < 12(k + 1)
FloorDiv12(n) == CHOOSE k \in 0..n : 12 * k =< n /\ n < 12 * (k + 1)

CurrentBlock == sSeen["block"].body.data._meta.block.number.num

\* C15: bn is the current block when secondsAgo is 0 and the current block minus
\* floor(secondsAgo / 12) otherwise; every query after the current-block query is
\* anchored to bn, the fallback tokens query included; the snapshot's blockNumber is bn.
C15_AnchorBlock ==
    sBn # NoNumber =>
        /\ sBn[1] = IF sArgs.secondsAgo = 0 THEN CurrentBlock
                    ELSE CurrentBlock - FloorDiv12(sArgs.secondsAgo)
        /\ \A i \in 1..Len(sNet) : sNet[i].query # "block" => sNet[i].block = sBn
        /\ (spc = "done" /\ sOut.status = "fulfilled") =>
             /\ sOut.value.blockNumber = sBn[1]
             /\ \A q \in { "base", "tokens", "pools" } : Posted(q) # {}

\* 25 seconds back from block 1007 is block 1005, which the snapshot and QuickSwap's
\* four queries, the fallback among them, carry
C15_Witness ==
    /\ sProto = "quick" /\ spc = "done" /\ sOut.status = "fulfilled"
    /\ sArgs.secondsAgo = 25
    /\ CurrentBlock = 1007
    /\ sOut.value.blockNumber = 1005
    /\ \E i \in Posted("tokensUSD") : sNet[i].block = << 1005 >>

\* the rows and the field the returned tokens were built from, and the base price
LastTokenQuery == IF Answered("tokensUSD") THEN "tokensUSD" ELSE "tokens"
LastField == IF Answered("tokensUSD") THEN "derivedUSD" ELSE DerivedField(sProto)
BasePriceSeen == ToNumber(sSeen["base"].body.data.bundles.arr[1][BaseField(sProto)])

Returned == spc = "done" /\ sProto \in ProtocolSet /\ sOut.status = "fulfilled"

\* a row with a symbol and a numeric derived price
NumericRow(row, field) ==
    /\ "str" \in DOMAIN row.symbol /\ row.symbol.str # <<>>
    /\ row[field] # Null
    /\ ToNumber(row[field]) # NaN

\* the derived price times the base price
TimesBase(row) == ToNumber(row[LastField]).num * BasePriceSeen.num

\* the price the adapter gives a row: QuickSwap's derivedUSD rows are not multiplied
ResultingPrice(row) ==
    IF LastTokenQuery = "tokensUSD" THEN ToNumber(row[LastField]).num ELSE TimesBase(row)

\* every returned token has a non-empty symbol and a price > 0 and is one of the kept
\* rows at its price; no more tokens are returned than rows are kept.  As stated, the
\* kept rows are those with a symbol and a derived price > 0, priced times the base
\* price; else those with a symbol and a resulting price > 0, priced at that
PricedBy(asStated) ==
    LET out == sOut.value.tokens
        rows == RowsOfQuery(LastTokenQuery)
        Price(row) == IF asStated THEN TimesBase(row) ELSE ResultingPrice(row)
        kept == { i \in 1..Len(rows) :
                    IF asStated THEN GoodRow(rows[i], LastField)
                    ELSE NumericRow(rows[i], LastField) /\ ResultingPrice(rows[i]) > 0 }
    IN  /\ Len(out) =< Cardinality(kept)
        /\ \A k \in 1..Len(out) :
             /\ "str" \in DOMAIN out[k].symbol /\ out[k].symbol.str # <<>>
             /\ "num" \in DOMAIN out[k].priceUSD /\ out[k].priceUSD.num > 0
             /\ \E i \in kept :
                  /\ out[k].symbol = rows[i].symbol
                  /\ out[k].priceUSD.num = Price(rows[i])

\* C16 as stated: in every returned snapshot priceUSD is the derived price times the
\* base price, and only rows with a symbol and a derived price > 0 are returned.
C16_AsStated == Returned => PricedBy(TRUE)

\* C16: every token of a returned snapshot has a non-empty symbol and priceUSD > 0;
\* priceUSD is the token's derived price times the base price, or, in a snapshot that
\* QuickSwap built from its derivedUSD query, the derivedUSD itself; rows with an empty
\* symbol, a null or non-numeric derived price, or a resulting price that is not > 0
\* (so a zero derived price always, and a negative one unless the base price is
\* negative too) are not returned.
C16_PositivePrices == Returned => PricedBy(FALSE)

\* a snapshot that QuickSwap built from its derivedUSD query: A is priced at its
\* derivedUSD 3, not at 3 times the MATIC price 2
C16_WitnessUSD ==
    /\ Returned /\ LastTokenQuery = "tokensUSD"
    /\ BasePriceSeen = [ num |-> 2 ]
    /\ sOut.value.tokens = << [ symbol |-> [ str |-> <<"A">> ], priceUSD |-> [ num |-> 3 ] ] >>

\* the base price was -1 and a row had the derived price -1: it is returned, priced 1
C16_WitnessNegative ==
    /\ Returned /\ LastTokenQuery = "tokens"
    /\ BasePriceSeen = [ num |-> -1 ]
    /\ \E k \in 1..Len(sOut.value.tokens) : sOut.value.tokens[k].priceUSD = [ num |-> 1 ]

\* PancakeSwap listed A at 3 and a token with a negative derived price while BNB was
\* at 2: the snapshot holds A at 6 and nothing else
C16_Witness ==
    /\ sProto = "cake" /\ spc = "done" /\ sOut.status = "fulfilled"
    /\ BasePriceSeen = [ num |-> 2 ]
    /\ Len(RowsOfQuery("tokens")) = 2
    /\ \E i \in 1..2 : RowsOfQuery("tokens")[i].derivedETH = [ str |-> <<"-", "1">> ]
    /\ sOut.value.tokens = << [ symbol |-> [ str |-> <<"A">> ], priceUSD |-> [ num |-> 6 ] ] >>

CredentialMissing ==
    IF sProto = "tokenApi" THEN sEnv.TOKEN_API_JWT = ""
    ELSE sEnv.THEGRAPH_API_KEY = "" /\ sEnv.ABI_KEY = ""

\* C18: a call made while the adapter's credential is missing from the environment
\* fails before any request is made (the DEX adapters with the message that names the
\* missing variable), as a rejection its caller can catch.
C18_AsStated ==
    (CredentialMissing /\ spc # "idle") =>
        /\ sNet = <<>>
        /\ spc = "done"
        /\ sOut.status = "rejected"
        /\ sProto \in ProtocolSet =>
             sOut.reason.message = "Missing THEGRAPH_API_KEY (or ABI_KEY) in env"

----------------------------------------------------------------------------
(* Properties of the protocol routes *)

\* request i arrives in this step
Arrives(i) == rReq[i].pc = "new" /\ rReq'[i].pc # "new"

\* C17: a request whose key equals the cached entry's key and that arrives less than
\* 60 seconds after the entry was stored is answered 200 with the cached snapshot and
\* calls no adapter; a request that arrives when nothing is cached, with another key,
\* or 60 seconds or more after the entry was stored calls the adapter.
C17_FreshHit ==
    [][ \A i \in 1..MaxRequests :
          Arrives(i) =>
              IF /\ rCache # Null
                 /\ rCache.key = rReq'[i].key
                 /\ rNow - rCache.at < 60 * 1000
              THEN /\ rReq'[i].pc = "done"
                   /\ rReq'[i].res = [ status |-> 200, body |-> rCache.data ]
                   /\ rFetches' = rFetches
              ELSE /\ rReq'[i].pc = "awaiting"
                   /\ rFetches' = Append(rFetches, i) ]_vars

\* the second request came 59999 ms after the first one's snapshot was stored, with the
\* same key: it got that snapshot and only the first request called the adapter
C17_Witness ==
    /\ rFetches = << 1 >>
    /\ rReq[1].pc = "done" /\ rReq[2].pc = "done"
    /\ rReq[2].key = rCache.key
    /\ rNow - rCache.at = 59999
    /\ rReq[2].res = [ status |-> 200, body |-> rCache.data ]

\* the second request came 60000 ms after the snapshot was stored, with the same key:
\* it called the adapter
C17_WitnessExpired ==
    /\ rFetches = << 1, 2 >>
    /\ rReq[1].pc = "done" /\ rReq[1].res.status = 200
    /\ rReq[2].pc = "awaiting"
    /\ rReq[2].key = rReq[1].key
    /\ rCache # Null /\ rNow - rCache.at = 60000

\* the second request came right after the snapshot was stored, with another key: it
\* called the adapter
C17_WitnessOtherKey ==
    /\ rFetches = << 1, 2 >>
    /\ rReq[1].pc = "done" /\ rReq[1].res.status = 200
    /\ rReq[2].pc = "awaiting"
    /\ rReq[2].key # rReq[1].key
    /\ rCache # Null /\ rNow = rCache.at

\* the adapter call of request i settles in this step
Settles(i) == rReq[i].pc = "awaiting" /\ rReq'[i].pc = "done"

\* C27: a request whose upstream fetch fails returns a status-500 response carrying an
\* error message and leaves the cache slot unchanged; the slot is overwritten only by
\* a successfully completed fetch, which replaces whatever key was cached before.
C27_FailureKeepsCache ==
    [][ /\ \A i \in 1..MaxRequests :
              Settles(i) =>
                  \/ /\ rReq'[i].res.status = 500
                     /\ DOMAIN rReq'[i].res.body = { "error" }
                     /\ rReq'[i].res.body.error # ""
                     /\ rCache' = rCache
                  \/ /\ rReq'[i].res.status = 200
                     /\ rCache' = [ key |-> rReq[i].key, at |-> rNow, data |-> rReq'[i].res.body ]
        /\ rCache' # rCache =>
              \E i \in 1..MaxRequests : Settles(i) /\ rReq'[i].res.status = 200 ]_vars

\* the second request missed the cache (another key, or the entry had expired), its
\* fetch failed, and the first request's entry is still in the slot
C27_Witness ==
    /\ rFetches = << 1, 2 >>
    /\ rReq[1].pc = "done" /\ rReq[1].res.status = 200
    /\ rReq[2].pc = "done" /\ rReq[2].res.status = 500
    /\ rReq[2].key # rReq[1].key
    /\ rCache # Null
    /\ rCache.key = rReq[1].key /\ rCache.data = rReq[1].res.body
    /\ rNow - rCache.at < 60000

\* the second request's successful fetch replaced the entry of another key
C27_WitnessOverwrite ==
    /\ rFetches = << 1, 2 >>
    /\ rReq[1].pc = "done" /\ rReq[1].res.status = 200
    /\ rReq[2].pc = "done" /\ rReq[2].res.status = 200
    /\ rReq[2].key # rReq[1].key
    /\ rCache # Null /\ rCache.key = rReq[2].key /\ rCache.data = rReq[2].res.body

\* request i called the adapter and got a snapshot
Fetched(i) ==
    /\ \E k \in 1..Len(rFetches) : rFetches[k] = i
    /\ rReq[i].pc = "done" /\ rReq[i].res.status = 200

\* C28: under any interleaving of concurrent requests to one protocol route, with equal
\* or different keys, the cache slot's data is the snapshot fetched for exactly the
\* (secondsAgo, first) of the slot's key, a response served from the cache carries a
\* snapshot fetched for its own parameters, and a successful fetch that completes
\* becomes the slot's entry, whichever request started last.
C28_SlotMatchesKey ==
    [][ /\ rCache' # Null =>
              \E i \in 1..MaxRequests :
                  /\ Fetched(i)'
                  /\ rCache'.key = rReq'[i].key
                  /\ rCache'.data = rReq'[i].res.body
        /\ \A j \in 1..MaxRequests :
              (Arrives(j) /\ rReq'[j].pc = "done") =>
                  \E i \in 1..MaxRequests :
                      /\ Fetched(i)
                      /\ rReq[i].key = rReq'[j].key
                      /\ rReq[i].res.body = rReq'[j].res.body
        /\ \A i \in 1..MaxRequests :
              (Settles(i) /\ rReq'[i].res.status = 200) =>
                  rCache'.key = rReq[i].key /\ rCache'.data = rReq'[i].res.body ]_vars

\* two requests with different keys were in flight together; the one that started
\* second completed first, then the first one completed: the slot holds the first
\* one's entry
C28_Witness ==
    /\ rFetches = << 1, 2 >>
    /\ rReq[1].pc = "done" /\ rReq[1].res.status = 200
    /\ rReq[2].pc = "done" /\ rReq[2].res.status = 200
    /\ rReq[1].key # rReq[2].key
    /\ rReq[1].res.body # rReq[2].res.body
    /\ rNow = 0
    /\ rCache.key = rReq[1].key /\ rCache.data = rReq[1].res.body

----------------------------------------------------------------------------
(* Properties of the pages *)

\* C19: the markets dashboard shows "Failed to load" only when the fetch of every
\* enabled protocol has failed; while an enabled protocol has delivered a snapshot it
\* shows the table of the rows built from the delivered snapshots.
C19_AsStated ==
    apc = "rendered" =>
        LET page == MarketDashboard(view)
        IN  /\ page.shows = "Failed to load" =>
                 \A p \in ProtocolSet : enabled[p] => swrErr[p] # Undefined
            /\ (\E p \in ProtocolSet : enabled[p] /\ swrData[p] # Undefined) =>
                 /\ page.shows = "MarketTable"
                 /\ page.rows = Rows(swrData)

\* C20: with useMock false, when fromCoinGecko and fromBinance both fail the hook's
\* promise is rejected and the token page shows the failure, and no chart of an empty
\* history.
C20_AsStated ==
    (hpc = "done" /\ ~useMock /\ \A s \in Sources : settled[s].status = "rejected") =>
        /\ hData.status = "rejected"
        /\ TokenPage(hData).shows = "Failed to load"

----------------------------------------------------------------------------
(* Properties of normalizeSymbol *)

\* the input is 0x followed by forty hex digits, in either letter case
AddressInput ==
    /\ Len(nInput) = 42
    /\ nInput[1] = "0"
    /\ nInput[2] = "x"
    /\ \A i \in 3..42 : nInput[i] \in { "0","1","2","3","4","5","6","7","8","9",
                                        "a","b","c","d","e","f","A","B","C","D","E","F" }

\* C21: for every input that is a 0x-prefixed 40-hex-character address, in any letter
\* case, normalizeSymbol returns the input unchanged.
C21_AsStated ==
    (nOut # NotCalled /\ AddressInput) => nOut = [ returns |-> nInput ]

\* C22: normalizeSymbol is total: the empty input yields the empty string; an input
\* that, trimmed and lowercased, is a key of the name-to-ticker table yields that
\* key's ticker; every other non-address input yields the trimmed input in uppercase.
C22_AsStated ==
    nOut # NotCalled =>
        LET t == Trim(nInput)
            s == ToLowerCase(t)
        IN  /\ "returns" \in DOMAIN nOut
            /\ nInput = <<>> => nOut.returns = <<>>
            /\ (nInput # <<>> /\ s \in DOMAIN MAP) => nOut.returns = MAP[s]
            /\ (nInput # <<>> /\ s \notin DOMAIN MAP /\ ~IsAddress(t)) =>
                   nOut.returns = ToUpperCase(t)

----------------------------------------------------------------------------
(* Properties of genMock *)

\* the calls made so far that the state remembers
MockCalls == { c \in { gPrev, gLast } : c # NotCalled }

\* the interval's duration in seconds, as the specification lists it
IntervalSeconds ==
    CASE gArgs.interval = "1m"  -> 60
      [] gArgs.interval = "5m"  -> 300
      [] gArgs.interval = "15m" -> 900
      [] gArgs.interval = "4h"  -> 14400
      [] gArgs.interval = "1d"  -> 86400
      [] OTHER                  -> 3600

\* min(1000, floor(days * 86400 / step))
ExpectedLength ==
    LET whole == (gArgs.days * 86400) \div IntervalSeconds
    IN  IF whole < 1000 THEN whole ELSE 1000

\* the current time in seconds when call c was made
NowOf(c) == c.at \div 1000

\* the series has the expected length, consecutive timestamps are IntervalSeconds
\* apart, oldest first, and the last timestamp is `last` seconds before now
SeriesShape(c, last) ==
    /\ Len(c.out) = ExpectedLength
    /\ \A k \in 1..(Len(c.out) - 1) : c.out[k + 1].time = c.out[k].time + IntervalSeconds
    /\ c.out # <<>> => c.out[Len(c.out)].time = NowOf(c) - last

\* C23 as stated: the series has min(1000, floor(days*86400/step)) candles, step apart,
\* oldest first, and the last candle's timestamp is the current time in seconds.
C23_AsStated == \A c \in MockCalls : SeriesShape(c, 0)

\* C23: genMock returns exactly min(1000, floor(days*86400/step)) candles, step being
\* 60, 300, 900, 14400, 86400 for 1m, 5m, 15m, 4h, 1d and 3600 otherwise, oldest first
\* with consecutive timestamps exactly step apart; the last candle's timestamp is one
\* step before the current time in seconds.
C23_EndsOneStepBeforeNow == \A c \in MockCalls : SeriesShape(c, IntervalSeconds)

\* a call whose series was cut to 1000 candles, and one with an unlisted interval
C23_Witness ==
    /\ gLast # NotCalled
    /\ (gArgs.days * 86400) \div IntervalSeconds > 1000
    /\ Len(gLast.out) = 1000
    /\ gLast.out[1000].time = NowOf(gLast) - 60

C23_WitnessDefault ==
    /\ gLast # NotCalled
    /\ gArgs.interval = "1w"
    /\ Len(gLast.out) = 24
    /\ gLast.out[24].time = NowOf(gLast) - 3600

\* the price fields of a candle
Prices(c) == [ open |-> c.open, high |-> c.high, low |-> c.low, close |-> c.close ]

\* the two series have the same length and the same price fields, candle by candle
SamePrices(a, b) ==
    /\ Len(a.out) = Len(b.out)
    /\ \A k \in 1..Len(a.out) : Prices(a.out[k]) = Prices(b.out[k])

\* every timestamp of b is that of a plus the whole seconds elapsed between the calls
ShiftedTimes(a, b) ==
    /\ Len(a.out) = Len(b.out)
    /\ \A k \in 1..Len(a.out) : b.out[k].time = a.out[k].time + (NowOf(b) - NowOf(a))

TwoCalls == gPrev # NotCalled /\ gLast # NotCalled

\* C24 as stated: two calls with the same symbol, days and interval return identical
\* series, whatever the time elapsed between them.
C24_AsStated ==
    (TwoCalls /\ gPrev.symbol = gLast.symbol) => gPrev.out = gLast.out

\* C24: two calls of genMock with the same symbol, days and interval return series with
\* identical price fields, and with identical timestamps when both calls fall in the
\* same clock second (otherwise every timestamp is later by the seconds elapsed); the
\* price fields depend only on the symbol's character-code sum.
C24_SamePrices ==
    TwoCalls =>
        /\ CharCodeSum(gPrev.symbol, 0) = CharCodeSum(gLast.symbol, 0) => SamePrices(gPrev, gLast)
        /\ gPrev.symbol = gLast.symbol => ShiftedTimes(gPrev, gLast)
        /\ (gPrev.symbol = gLast.symbol /\ NowOf(gPrev) = NowOf(gLast)) => gPrev.out = gLast.out

\* the same symbol called in two different seconds
C24_Witness ==
    /\ TwoCalls
    /\ gPrev.symbol = gLast.symbol
    /\ NowOf(gPrev) < NowOf(gLast)
    /\ gLast.out # <<>>
    /\ gPrev.out # gLast.out

\* two symbols with one character-code sum, and two with different sums
C24_WitnessSameSum ==
    /\ TwoCalls
    /\ gPrev.symbol = <<"A","C">> /\ gLast.symbol = <<"B","B">>
    /\ gLast.out # <<>>
    /\ SamePrices(gPrev, gLast)

C24_WitnessOtherSum ==
    /\ TwoCalls
    /\ gPrev.symbol = <<"B","T","C">> /\ gLast.symbol = <<"B","B">>
    /\ gLast.out # <<>>
    /\ ~SamePrices(gPrev, gLast)

\* C25: every candle produced by genMock satisfies low <= open <= high and
\* low <= close <= high.
C25_AsStated ==
    \A c \in MockCalls : \A k \in 1..Len(c.out) :
        /\ c.out[k].low =< c.out[k].open /\ c.out[k].open =< c.out[k].high
        /\ c.out[k].low =< c.out[k].close /\ c.out[k].close =< c.out[k].high

----------------------------------------------------------------------------
(* The Candle invariant under mergeHistories *)

CandleInvariant(c) ==
    /\ c.low =< c.open /\ c.open =< c.high
    /\ c.low =< c.close /\ c.close =< c.high

\* C26: mergeHistories preserves the Candle invariant: if every input candle satisfies
\* low <= open <= high and low <= close <= high, then every output candle does too,
\* for any number of histories and any overlap of timestamps.
C26_CandleInvariant ==
    (mpc = "returned" /\ \A c \in Range(Flat(histories)) : CandleInvariant(c)) =>
        \A k \in 1..Len(merged) : CandleInvariant(merged[k])

\* two histories that overlap at a timestamp where the merged candle takes its high
\* from one input candle and its low or open from another
C26_Witness ==
    /\ mpc = "returned"
    /\ Len(histories) = 2
    /\ \E a \in Range(histories[1]) : \E b \in Range(histories[2]) : \E k \in 1..Len(merged) :
           /\ a.time = b.time /\ merged[k].time = a.time
           /\ merged[k].open = a.open
           /\ merged[k].high = b.high /\ b.high > a.high
           /\ merged[k].close = b.close /\ b.close > a.high
           /\ CandleInvariant(merged[k])

----------------------------------------------------------------------------
(* The order of the snapshot queries *)

\* C29: after resolving the anchor block, each DEX snapshot adapter issues the
\* base-asset price query, the top-tokens query and the top-pools query in parallel:
\* once the anchor block is known all three have been posted, none waits for another.
C29_AsStated ==
    sBn # NoNumber => \A q \in { "base", "tokens", "pools" } : Posted(q) # {}

----------------------------------------------------------------------------
(* Properties of the chat pages *)

\* msgs as it should be once every request has settled: after the initial messages,
\* each sent message followed by the reply, or the error, of its own request
RECURSIVE Conversations(_)
Conversations(k) ==
    IF k = 0 THEN { InitialMsgs(chPage) }
    ELSE { m \o << [ role |-> "user", text |-> JStr(chReq[k].text) ], [ role |-> "ai", text |-> ai ] >> :
             m \in Conversations(k - 1), ai \in { [ replyTo |-> k ], [ errorOf |-> k ] } }

\* C30: in both assistant chat pages, under any interleaving of send actions and reply
\* arrivals, every sent user message ends up followed by exactly one AI message that
\* is the reply (or error) to that message: once all requests have settled no
\* placeholder remains and no reply has overwritten that of another message.
C30_AsStated ==
    (\A k \in 1..Len(chReq) : chReq[k].settled) => chMsgs \in Conversations(Len(chReq))

====
